---------------------------- MODULE Spec2Model ----------------------------
(***************************************************************************)
(* A model of the file reconciliation code of qilife:                      *)
(*   - tests/organize_project.py: the target-layout reconciler with its    *)
(*     rollback journal (create_empty_file, delete_file, move_file,        *)
(*     delete_empty_directories, generate_rollback_file, organize_project  *)
(*     and the script entry point);                                        *)
(*   - j_tools/e05_index_dups/je02_duplicate_file_cleaner.py: duplicate    *)
(*     detection and handling (find_duplicates, is_numbered_duplicate,     *)
(*     handle_duplicates).                                                 *)
(*                                                                         *)
(* A path is the sequence of its name components below ROOT, so ROOT is    *)
(* <<>>, os.path.join appends a component, os.path.dirname drops the last  *)
(* one and os.path.relpath(p, ROOT) is p itself.  Every path of the model  *)
(* is therefore in the normal form normalize_path produces.                *)
(*                                                                         *)
(* The content of a file is a sequence of tokens, its length the size of   *)
(* the file: Empty for a zero-length file, and for a file of the initial   *)
(* tree of the reconciler the path it was first found at, so that two      *)
(* initial files never hold the same content and any loss, overwrite or    *)
(* exchange of content is visible.                                         *)
(***************************************************************************)
EXTENDS Integers, Sequences, FiniteSets, TLC

VARIABLES
    prog,           \* entry point of the process: "main", "lib", "ops", "dups"
    pc,             \* position of the process
    structure,      \* the target layout (module constant `structure`)
    dry_run,        \* the dry_run argument of the running call
    files,          \* the filesystem: file path -> content
    dirs,           \* the filesystem: set of directory paths
    rollback_data,  \* the module-level journal list
    rollback_csv,   \* rows of ROOT/rollback_log.csv, or NoCsv
    log,            \* lines logged by the running call
    dirq,           \* step 1: expected directories still to ensure
    declq,          \* step 2: declared files still to process
    processed,      \* step 2: processed_files_canonical
    dupq,           \* step 2: current_file_locations still to delete
    q3,             \* step 3: all_current_fs_files still to examine
    q4,             \* step 4: os.walk(topdown=False) entries still to visit
    nfail,          \* number of failed filesystem calls so far
    run,            \* number of calls of organize_project so far
    hist,           \* history: start of this call, previous call, removals
    dup             \* state of handle_duplicates

vars == <<prog, pc, structure, dry_run, files, dirs, rollback_data,
          rollback_csv, log, dirq, declq, processed, dupq, q3, q4, nfail,
          run, hist, dup>>

---------------------------------------------------------------------------
(* Bounds *)

\* At most MaxFail filesystem calls fail in one process.
MaxFail == 1

\* organize_project is called at most MaxRuns times in one importing process.
MaxRuns == 2

---------------------------------------------------------------------------
(* Paths *)

ROOT == <<>>

LOG_FILE == "organize_log.txt"

SCRIPT_NAME == "organize_project.py"

ROLLBACK_NAME == "rollback_log.csv"

Empty == <<>>

NoCsv == "none"

Dirname(p) == SubSeq(p, 1, Len(p) - 1)

Basename(p) == p[Len(p)]

Join(d, name) == Append(d, name)

\* os.makedirs(d, exist_ok=True) creates d and every missing ancestor.
Ancestors(d) == { SubSeq(d, 1, i) : i \in 0..Len(d) }

\* Directories of the universe in the order os.walk(ROOT) meets them
\* top-down (parents first, siblings by name).
DirOrder ==
    << <<>>, <<"old">>, <<"old", "sub">>, <<"src">>, <<"src", "core">> >>

\* The same directories in the order os.walk(ROOT, topdown=False) yields them.
DirPostOrder ==
    << <<"old", "sub">>, <<"old">>, <<"src", "core">>, <<"src">>, <<>> >>

\* File names of the universe in listing order within one directory.
NameOrder ==
    << "junk.txt", LOG_FILE, SCRIPT_NAME, "processor.py", "report (2).txt",
       "report.txt", "report_1.txt", "summary.txt" >>

\* Every file path of the universe, in os.walk(ROOT) order.
FileOrder ==
    [ k \in 1..(Len(DirOrder) * Len(NameOrder)) |->
        Join(DirOrder[((k - 1) \div Len(NameOrder)) + 1],
             NameOrder[((k - 1) % Len(NameOrder)) + 1]) ]

SeqToSet(s) == { s[i] : i \in 1..Len(s) }

\* The files os.walk(ROOT) lists, in order.
WalkFiles(f, d) ==
    LET Present(p) == p \in DOMAIN f /\ Dirname(p) \in d
    IN  SelectSeq(FileOrder, Present)

find_all_files_in_root(filename, f, d) ==
    LET Named(p) == Basename(p) = filename
    IN  SelectSeq(WalkFiles(f, d), Named)

---------------------------------------------------------------------------
(* The target layout *)

Layout1 ==
    << [folder |-> "src", subdir |-> "core", files |-> <<"processor.py">>] >>

\* A layout that declares one file name under two directories.
Layout2 ==
    << [folder |-> "src", subdir |-> "core", files |-> <<"processor.py">>],
       [folder |-> "src", subdir |-> "", files |-> <<"processor.py">>] >>

Layouts == {Layout1, Layout2}

TargetDir(e) ==
    IF e.subdir # "" THEN <<e.folder, e.subdir>> ELSE <<e.folder>>

expected_directory_paths(s) ==
    {ROOT} \cup { <<s[i].folder>> : i \in 1..Len(s) }
           \cup { TargetDir(s[i]) : i \in 1..Len(s) }

defined_file_targets(s) ==
    UNION { { Join(TargetDir(s[i]), s[i].files[j]) : j \in 1..Len(s[i].files) } :
            i \in 1..Len(s) }

DeclaredOf(e) ==
    [ j \in 1..Len(e.files) |->
        [filename |-> e.files[j], canonical |-> Join(TargetDir(e), e.files[j])] ]

\* The declared files in the order the nested loops of step 2 meet them.
RECURSIVE Declared(_)
Declared(s) ==
    IF s = <<>> THEN <<>> ELSE DeclaredOf(Head(s)) \o Declared(Tail(s))

---------------------------------------------------------------------------
(* The file operations.  Each takes the filesystem (f, d), its arguments,  *)
(* the dry_run flag and the system call that fails in this attempt         *)
(* ("none", "mkdir" for os.makedirs, "op" for the operation itself), and   *)
(* returns the filesystem after it, the journal entries it appended, the   *)
(* lines it logged, whether a call failed and whether an exception left    *)
(* the function.                                                           *)

Res(f, d, rb, lg, failed, did) ==
    [files |-> f, dirs |-> d, rb |-> rb, log |-> lg, failed |-> failed,
     did |-> did, raised |-> FALSE]

\* The call an operation was entered with, and whether its filesystem
\* mutation was performed.
Did(op, p1, p2, ok) == [op |-> op, p1 |-> p1, p2 |-> p2, ok |-> ok]

NoDid == Did("none", <<>>, <<>>, FALSE)

\* A logged line: what was done, or with dry = TRUE what would be done.
Line(act, p1, p2, dry) == [act |-> act, p1 |-> p1, p2 |-> p2, dry |-> dry]

\* The parent-directory block shared by create_empty_file and move_file:
\* the directories after it, the lines logged and whether the caller returns.
EnsureParent(d, dest_dir, dry, flt) ==
    IF dest_dir \in d
    THEN [dirs |-> d, log |-> <<>>, ret |-> FALSE]
    ELSE IF dry
    THEN [dirs |-> d, log |-> <<Line("MKDIR", dest_dir, <<>>, TRUE)>>,
          ret |-> FALSE]
    ELSE IF flt = "mkdir"
    THEN [dirs |-> d, log |-> <<Line("ERROR", dest_dir, <<>>, FALSE)>>,
          ret |-> TRUE]
    ELSE [dirs |-> d \cup Ancestors(dest_dir),
          log |-> <<Line("MKDIR", dest_dir, <<>>, FALSE)>>, ret |-> FALSE]

\* open(file_path, 'w'): the file exists afterwards and is empty.
Written(f, p) == [ q \in DOMAIN f \cup {p} |-> IF q = p THEN Empty ELSE f[q] ]

\* create_empty_file appending nothing to the journal.
create_empty_file_unjournaled(f, d, file_path, dry, flt) ==
    LET mk == EnsureParent(d, Dirname(file_path), dry, flt)
        no == Did("CREATE", file_path, <<>>, FALSE)
    IN  IF mk.ret THEN Res(f, d, <<>>, mk.log, TRUE, no)
        ELSE IF dry
        THEN Res(f, mk.dirs, <<>>,
                 mk.log \o <<Line("CREATE", file_path, <<>>, TRUE)>>, FALSE, no)
        ELSE IF flt = "op"
        THEN Res(f, mk.dirs, <<>>,
                 mk.log \o <<Line("ERROR", file_path, <<>>, FALSE)>>, TRUE, no)
        ELSE Res(Written(f, file_path), mk.dirs, <<>>,
                 mk.log \o <<Line("CREATE", file_path, <<>>, FALSE)>>, FALSE,
                 Did("CREATE", file_path, <<>>, TRUE))

create_empty_file(f, d, file_path, dry, flt) ==
    LET mk == EnsureParent(d, Dirname(file_path), dry, flt)
        no == Did("CREATE", file_path, <<>>, FALSE)
    IN  IF mk.ret THEN Res(f, d, <<>>, mk.log, TRUE, no)
        ELSE IF dry
        THEN Res(f, mk.dirs, <<>>,
                 mk.log \o <<Line("CREATE", file_path, <<>>, TRUE)>>, FALSE, no)
        ELSE IF flt = "op"
        THEN Res(f, mk.dirs, <<>>,
                 mk.log \o <<Line("ERROR", file_path, <<>>, FALSE)>>, TRUE, no)
        ELSE Res(Written(f, file_path), mk.dirs,
                 <<[action |-> "DELETE", path |-> file_path]>>,
                 mk.log \o <<Line("CREATE", file_path, <<>>, FALSE)>>, FALSE,
                 Did("CREATE", file_path, <<>>, TRUE))

\* os.remove(p)
Removed(f, p) == [ q \in DOMAIN f \ {p} |-> f[q] ]

\* delete_file without its dry_run test.
delete_file_ignoring_dry_run(f, d, file_path, dry, flt) ==
    IF file_path \notin DOMAIN f
    THEN Res(f, d, <<>>, <<Line("WARNING", file_path, <<>>, FALSE)>>,
             FALSE, Did("DELETE", file_path, <<>>, FALSE))
    ELSE Res(Removed(f, file_path), d,
             <<[action |-> "CREATE", path |-> file_path]>>,
             <<Line("DELETE", file_path, <<>>, FALSE)>>, FALSE,
             Did("DELETE", file_path, <<>>, TRUE))

\* delete_file journaling the removal before it is attempted.
delete_file_journal_first(f, d, file_path, dry, flt) ==
    LET no == Did("DELETE", file_path, <<>>, FALSE)
        entry == <<[action |-> "CREATE", path |-> file_path]>>
    IN  IF dry
        THEN Res(f, d, <<>>, <<Line("DELETE", file_path, <<>>, TRUE)>>,
                 FALSE, no)
        ELSE IF file_path \notin DOMAIN f
        THEN Res(f, d, entry, <<Line("WARNING", file_path, <<>>, FALSE)>>,
                 FALSE, no)
        ELSE IF flt = "op"
        THEN Res(f, d, entry, <<Line("ERROR", file_path, <<>>, FALSE)>>,
                 TRUE, no)
        ELSE Res(Removed(f, file_path), d, entry,
                 <<Line("DELETE", file_path, <<>>, FALSE)>>, FALSE,
                 Did("DELETE", file_path, <<>>, TRUE))

\* delete_file without its except clauses: a failed os.remove propagates.
delete_file_uncaught(f, d, file_path, dry, flt) ==
    LET no == Did("DELETE", file_path, <<>>, FALSE)
    IN  IF dry
        THEN Res(f, d, <<>>, <<Line("DELETE", file_path, <<>>, TRUE)>>,
                 FALSE, no)
        ELSE IF file_path \notin DOMAIN f \/ flt = "op"
        THEN [Res(f, d, <<>>, <<>>, flt = "op" /\ file_path \in DOMAIN f, no)
                EXCEPT !.raised = TRUE]
        ELSE Res(Removed(f, file_path), d,
                 <<[action |-> "CREATE", path |-> file_path]>>,
                 <<Line("DELETE", file_path, <<>>, FALSE)>>, FALSE,
                 Did("DELETE", file_path, <<>>, TRUE))

delete_file(f, d, file_path, dry, flt) ==
    LET no == Did("DELETE", file_path, <<>>, FALSE)
    IN  IF dry
        THEN Res(f, d, <<>>, <<Line("DELETE", file_path, <<>>, TRUE)>>,
                 FALSE, no)
        ELSE IF file_path \notin DOMAIN f
        THEN Res(f, d, <<>>, <<Line("WARNING", file_path, <<>>, FALSE)>>,
                 FALSE, no)
        ELSE IF flt = "op"
        THEN Res(f, d, <<>>, <<Line("ERROR", file_path, <<>>, FALSE)>>,
                 TRUE, no)
        ELSE Res(Removed(f, file_path), d,
                 <<[action |-> "CREATE", path |-> file_path]>>,
                 <<Line("DELETE", file_path, <<>>, FALSE)>>, FALSE,
                 Did("DELETE", file_path, <<>>, TRUE))

\* shutil.move(src, dst) of a file: os.rename, which replaces a file at dst.
Moved(f, src, dst) ==
    [ q \in (DOMAIN f \ {src}) \cup {dst} |-> IF q = dst THEN f[src] ELSE f[q] ]

move_file(f, d, src_path, dest_path, dry, flt) ==
    LET mk == EnsureParent(d, Dirname(dest_path), dry, flt)
        no == Did("MOVE", src_path, dest_path, FALSE)
    IN  IF mk.ret THEN Res(f, d, <<>>, mk.log, TRUE, no)
        ELSE IF dry
        THEN Res(f, mk.dirs, <<>>,
                 mk.log \o <<Line("MOVE", src_path, dest_path, TRUE)>>,
                 FALSE, no)
        ELSE IF src_path \notin DOMAIN f
        THEN Res(f, mk.dirs, <<>>,
                 mk.log \o <<Line("WARNING", src_path, <<>>, FALSE)>>,
                 FALSE, no)
        ELSE IF flt = "op"
        THEN Res(f, mk.dirs, <<>>,
                 mk.log \o <<Line("ERROR", src_path, <<>>, FALSE)>>, TRUE, no)
        ELSE Res(Moved(f, src_path, dest_path), mk.dirs,
                 <<[action |-> "MOVE", source |-> dest_path,
                    destination |-> src_path]>>,
                 mk.log \o <<Line("MOVE", src_path, dest_path, FALSE)>>,
                 FALSE, Did("MOVE", src_path, dest_path, TRUE))

\* What os.walk saw in dirpath: no sub-directory and no file.
IsEmptyDir(f, d, dirpath) ==
    /\ ~ \E c \in d : Len(c) = Len(dirpath) + 1 /\ Dirname(c) = dirpath
    /\ ~ \E p \in DOMAIN f : Dirname(p) = dirpath

\* The loop body without the test for expected directories.
prune_directory_ignoring_expected(f, d, e, expected_dirs, dry, flt) ==
    LET no == Did("RMDIR", e.dirpath, <<>>, FALSE)
    IN  IF e.dirpath = ROOT THEN Res(f, d, <<>>, <<>>, FALSE, NoDid)
        ELSE IF ~ e.is_empty
        THEN Res(f, d, <<>>, <<>>, FALSE, NoDid)
        ELSE IF dry
        THEN Res(f, d, <<>>, <<Line("RMDIR", e.dirpath, <<>>, TRUE)>>,
                 FALSE, no)
        ELSE IF flt = "op" \/ ~ IsEmptyDir(f, d, e.dirpath)
                \/ e.dirpath \notin d
        THEN Res(f, d, <<>>, <<Line("ERROR", e.dirpath, <<>>, FALSE)>>,
                 TRUE, no)
        ELSE Res(f, d \ {e.dirpath},
                 <<[action |-> "CREATE_DIR", path |-> e.dirpath]>>,
                 <<Line("RMDIR", e.dirpath, <<>>, FALSE)>>, FALSE,
                 Did("RMDIR", e.dirpath, <<>>, TRUE))

\* One iteration of the loop of delete_empty_directories over the walk entry
\* e = [dirpath, is_empty], is_empty being what the walk listed.
prune_directory(f, d, e, expected_dirs, dry, flt) ==
    LET no == Did("RMDIR", e.dirpath, <<>>, FALSE)
    IN  IF e.dirpath = ROOT THEN Res(f, d, <<>>, <<>>, FALSE, NoDid)
        ELSE IF ~ (e.is_empty /\ e.dirpath \notin expected_dirs)
        THEN Res(f, d, <<>>, <<>>, FALSE, NoDid)
        ELSE IF dry
        THEN Res(f, d, <<>>, <<Line("RMDIR", e.dirpath, <<>>, TRUE)>>,
                 FALSE, no)
        ELSE IF flt = "op" \/ ~ IsEmptyDir(f, d, e.dirpath)
                \/ e.dirpath \notin d
        THEN Res(f, d, <<>>, <<Line("ERROR", e.dirpath, <<>>, FALSE)>>,
                 TRUE, no)
        ELSE Res(f, d \ {e.dirpath},
                 <<[action |-> "CREATE_DIR", path |-> e.dirpath]>>,
                 <<Line("RMDIR", e.dirpath, <<>>, FALSE)>>, FALSE,
                 Did("RMDIR", e.dirpath, <<>>, TRUE))

\* The entries os.walk(ROOT, topdown=False) yields: each directory is listed
\* on the way down, before anything below it is removed.
WalkBottomUp(f, d) ==
    LET Exists(x) == x \in d
        ds == SelectSeq(DirPostOrder, Exists)
    IN  [ i \in 1..Len(ds) |->
            [dirpath |-> ds[i], is_empty |-> IsEmptyDir(f, d, ds[i])] ]

\* The row of a journal entry with the two paths of a MOVE exchanged.
CsvRow_paths_exchanged(entry) ==
    IF entry.action = "MOVE"
    THEN [action |-> "MOVE", path1 |-> entry.destination, path2 |-> entry.source]
    ELSE [action |-> entry.action, path1 |-> entry.path, path2 |-> ""]

\* One row of rollback_log.csv for a journal entry.
CsvRow(entry) ==
    IF entry.action = "MOVE"
    THEN [action |-> "MOVE", path1 |-> entry.source, path2 |-> entry.destination]
    ELSE [action |-> entry.action, path1 |-> entry.path, path2 |-> ""]

\* generate_rollback_file without its early return on an empty journal.
generate_rollback_file_always(rb, csv, flt) ==
    IF flt = "op" THEN [csv |-> csv, failed |-> TRUE, wrote |-> FALSE]
    ELSE [csv |-> [ i \in 1..Len(rb) |-> CsvRow(rb[i]) ], failed |-> FALSE,
          wrote |-> TRUE]

\* generate_rollback_file: the rows of rollback_log.csv afterwards.
generate_rollback_file(rb, csv, flt) ==
    IF rb = <<>> THEN [csv |-> csv, failed |-> FALSE, wrote |-> FALSE]
    ELSE IF flt = "op" THEN [csv |-> csv, failed |-> TRUE, wrote |-> FALSE]
    ELSE [csv |-> [ i \in 1..Len(rb) |-> CsvRow(rb[i]) ], failed |-> FALSE,
          wrote |-> TRUE]

\* One iteration of the loop of step 1 that ensures an expected directory.
ensure_directory(f, d, dir_path, expected_dirs, dry, flt) ==
    LET no == Did("MKDIR", dir_path, <<>>, FALSE)
    IN  IF dir_path \in d THEN Res(f, d, <<>>, <<>>, FALSE, NoDid)
        ELSE IF dry
        THEN Res(f, d, <<>>, <<Line("MKDIR", dir_path, <<>>, TRUE)>>,
                 FALSE, no)
        ELSE IF flt = "mkdir"
        THEN Res(f, d, <<>>, <<Line("ERROR", dir_path, <<>>, FALSE)>>,
                 TRUE, no)
        ELSE Res(f, d \cup Ancestors(dir_path),
                 IF dir_path \notin expected_dirs
                 THEN <<[action |-> "DELETE_DIR", path |-> dir_path]>>
                 ELSE <<>>,
                 <<Line("MKDIR", dir_path, <<>>, FALSE)>>, FALSE,
                 Did("MKDIR", dir_path, <<>>, TRUE))

\* The loop body leaving the other copies alone when the canonical one
\* exists.
place_declared_keeping_copies(f, d, decl, dry, flt) ==
    LET locs == find_all_files_in_root(decl.filename, f, d)
    IN  IF decl.canonical \in SeqToSet(locs)
        THEN [res |-> Res(f, d, <<>>, <<>>, FALSE, NoDid), rest |-> <<>>]
        ELSE IF locs # <<>>
        THEN [res |-> move_file(f, d, Head(locs), decl.canonical, dry, flt),
              rest |-> Tail(locs)]
        ELSE [res |-> create_empty_file(f, d, decl.canonical, dry, flt),
              rest |-> <<>>]

\* The loop body moving the last found instance instead of the first.
place_declared_moving_last(f, d, decl, dry, flt) ==
    LET locs == find_all_files_in_root(decl.filename, f, d)
        NotCanonical(p) == p # decl.canonical
    IN  IF decl.canonical \in SeqToSet(locs)
        THEN [res |-> Res(f, d, <<>>, <<>>, FALSE, NoDid),
              rest |-> SelectSeq(locs, NotCanonical)]
        ELSE IF locs # <<>>
        THEN [res |-> move_file(f, d, locs[Len(locs)], decl.canonical, dry,
                                flt),
              rest |-> SubSeq(locs, 1, Len(locs) - 1)]
        ELSE [res |-> create_empty_file(f, d, decl.canonical, dry, flt),
              rest |-> <<>>]

\* The body of the loop of step 2 for one declared file, up to and including
\* the move or the creation: the result of that operation and the locations
\* left in current_file_locations.
place_declared(f, d, decl, dry, flt) ==
    LET locs == find_all_files_in_root(decl.filename, f, d)
        NotCanonical(p) == p # decl.canonical
    IN  IF decl.canonical \in SeqToSet(locs)
        THEN [res |-> Res(f, d, <<>>, <<>>, FALSE, NoDid),
              rest |-> SelectSeq(locs, NotCanonical)]
        ELSE IF locs # <<>>
        THEN [res |-> move_file(f, d, Head(locs), decl.canonical, dry, flt),
              rest |-> Tail(locs)]
        ELSE [res |-> create_empty_file(f, d, decl.canonical, dry, flt),
              rest |-> <<>>]

\* The body of the loop of step 3 for one collected file.
cleanup_file(f, d, file_path, targets, dry, flt) ==
    IF file_path \in targets THEN Res(f, d, <<>>, <<>>, FALSE, NoDid)
    ELSE IF Basename(file_path) \in {SCRIPT_NAME, LOG_FILE, ROLLBACK_NAME}
    THEN Res(f, d, <<>>, <<>>, FALSE, NoDid)
    ELSE delete_file(f, d, file_path, dry, flt)

\* response.lower()
Lower(r) ==
    CASE r = "YES" -> "yes"
      [] r = "Yes" -> "yes"
      [] r = "Y" -> "y"
      [] r = "NO" -> "no"
      [] OTHER -> r

\* The confirmation test taking every non-empty answer for a yes.
Confirmed_any_answer(response) == Lower(response) # ""

\* The test of the confirmation prompt of the script.
Confirmed(response) == Lower(response) \in {"yes", "y"}

---------------------------------------------------------------------------
(* Initial states *)

Faults == {"none", "mkdir", "op"}

Responses == {"yes", "y", "YES", "Y", "no", "n", ""}

\* Files an initial tree may hold besides the script and its log.
CandFiles ==
    { <<"src", "core", "processor.py">>, <<"src", "processor.py">>,
      <<"old", "processor.py">>, <<"old", "junk.txt">>, <<"old", LOG_FILE>> }

\* Directories an initial tree may hold although nothing lies below them.
CandEmptyDirs == { <<"old", "sub">> }

\* Arguments of a direct call of a file operation.
OpPaths ==
    { <<"src", "core", "processor.py">>, <<"old", "processor.py">>,
      <<"old", "sub", "junk.txt">> }

InitialTree(present, extra) ==
    LET fs == present \cup { <<LOG_FILE>>, <<SCRIPT_NAME>> }
    IN  [files |-> [ p \in fs |-> p ],
         dirs |-> UNION { Ancestors(Dirname(p)) : p \in fs }
                  \cup UNION { Ancestors(x) : x \in extra }]

NoPrev == [valid |-> FALSE]

NoDup == [valid |-> FALSE]

InitOrg ==
    /\ prog \in {"main", "lib", "ops"}
    /\ pc = "start"
    /\ structure \in Layouts
    /\ dry_run = FALSE
    /\ \E present \in SUBSET CandFiles, extra \in SUBSET CandEmptyDirs :
         LET t == InitialTree(present, extra)
         IN  /\ files = t.files
             /\ dirs = t.dirs
             /\ hist = [init |-> t, fs0 |-> t, start |-> 0, fail0 |-> 0,
                        answer |-> "none", prev |-> NoPrev, removed |-> {},
                        wrote |-> FALSE, genfailed |-> FALSE, csv0 |-> NoCsv,
                        last |-> NoDid, nops |-> 0]
    /\ rollback_data = <<>>
    /\ rollback_csv = NoCsv
    /\ log = <<>>
    /\ dirq = <<>>
    /\ declq = <<>>
    /\ processed = {}
    /\ dupq = <<>>
    /\ q3 = <<>>
    /\ q4 = <<>>
    /\ nfail = 0
    /\ run = 0
    /\ dup = NoDup

---------------------------------------------------------------------------
(* The script entry point and organize_project *)

QueuesUnchanged == UNCHANGED <<dirq, declq, processed, dupq, q3, q4>>

FsUnchanged == UNCHANGED <<files, dirs, rollback_data, rollback_csv>>

\* The effect of one operation's result r on the filesystem, the journal,
\* the log and the failure count; deleted tells a removal by delete_file.
Apply(r, deleted) ==
    /\ r.failed => nfail < MaxFail
    /\ files' = r.files
    /\ dirs' = r.dirs
    /\ rollback_data' = rollback_data \o r.rb
    /\ log' = log \o r.log
    /\ nfail' = IF r.failed THEN nfail + 1 ELSE nfail
    /\ hist' = [hist EXCEPT
                  !.removed =
                     IF deleted
                     THEN @ \cup { [path |-> p, content |-> files[p]] :
                                   p \in DOMAIN files \ DOMAIN r.files }
                     ELSE @,
                  !.last = r.did,
                  !.nops = IF r.did.op = "none" THEN @ ELSE @ + 1]

\* Where the process goes after an operation: on, or out by an exception.
Goto(r, next) == pc' = IF r.raised THEN "aborted" ELSE next

\* The script: parse --dry-run.
MainParse ==
    /\ prog = "main" /\ pc = "start"
    /\ \E dr \in BOOLEAN :
         /\ dry_run' = dr
         /\ pc' = IF dr THEN "call" ELSE "confirm"
    /\ UNCHANGED <<prog, structure, log, nfail, run, hist, dup>>
    /\ FsUnchanged /\ QueuesUnchanged

\* The script: the confirmation prompt of a real run.
MainConfirm ==
    /\ prog = "main" /\ pc = "confirm"
    /\ \E response \in Responses :
         /\ hist' = [hist EXCEPT !.answer = response]
         /\ pc' = IF Confirmed(response) THEN "call" ELSE "exit"
    /\ UNCHANGED <<prog, structure, dry_run, log, nfail, run, dup>>
    /\ FsUnchanged /\ QueuesUnchanged

\* An importing process calls organize_project, possibly again.
LibCall ==
    /\ prog = "lib" /\ pc \in {"start", "done"}
    /\ run < MaxRuns
    /\ dry_run' \in BOOLEAN
    /\ pc' = "call"
    /\ hist' = [hist EXCEPT !.prev =
                  IF pc = "done"
                  THEN [valid |-> TRUE, log |-> log, dry_run |-> dry_run,
                        fs0 |-> hist.fs0, failed |-> nfail > hist.fail0]
                  ELSE @]
    /\ UNCHANGED <<prog, structure, log, nfail, run, dup>>
    /\ FsUnchanged /\ QueuesUnchanged

\* organize_project: compute the expected paths and enter step 1.
Enter ==
    /\ pc = "call"
    /\ pc' = "step1"
    /\ run' = run + 1
    /\ log' = <<>>
    /\ LET Expected(x) == x \in expected_directory_paths(structure)
       IN  dirq' = SelectSeq(DirOrder, Expected)
    /\ hist' = [hist EXCEPT !.fs0 = [files |-> files, dirs |-> dirs],
                            !.start = Len(rollback_data),
                            !.fail0 = nfail,
                            !.csv0 = rollback_csv,
                            !.wrote = FALSE,
                            !.genfailed = FALSE]
    /\ UNCHANGED <<prog, structure, dry_run, declq, processed, dupq, q3, q4,
                   nfail, dup>>
    /\ FsUnchanged

\* Step 1: ensure one expected directory.
EnsureDir ==
    /\ pc = "step1" /\ dirq # <<>>
    /\ \E flt \in Faults :
         LET r == ensure_directory(files, dirs, Head(dirq),
                                   expected_directory_paths(structure),
                                   dry_run, flt)
         IN  Apply(r, FALSE) /\ Goto(r, "step1")
    /\ dirq' = Tail(dirq)
    /\ UNCHANGED <<prog, structure, dry_run, rollback_csv, declq, processed,
                   dupq, q3, q4, run, dup>>

Step1Done ==
    /\ pc = "step1" /\ dirq = <<>>
    /\ pc' = "step2"
    /\ declq' = Declared(structure)
    /\ processed' = {}
    /\ dupq' = <<>>
    /\ UNCHANGED <<prog, structure, dry_run, log, dirq, q3, q4, nfail, run,
                   hist, dup>>
    /\ FsUnchanged

\* Step 2: the next declared file: keep, move or create.
ProcessFile ==
    /\ pc = "step2" /\ dupq = <<>> /\ declq # <<>>
    /\ LET decl == Head(declq)
       IN  IF decl.canonical \in processed
           THEN /\ UNCHANGED <<files, dirs, rollback_data, log, nfail, hist,
                               processed, dupq, pc>>
           ELSE \E flt \in Faults :
                  LET pl == place_declared(files, dirs, decl, dry_run, flt)
                  IN  /\ Apply(pl.res, FALSE) /\ Goto(pl.res, "step2")
                      /\ dupq' = pl.rest
                      /\ processed' = processed \cup {decl.canonical}
    /\ declq' = Tail(declq)
    /\ UNCHANGED <<prog, structure, dry_run, rollback_csv, dirq, q3, q4, run,
                   dup>>

\* Step 2: delete the next remaining location of the current declared file.
DeleteDuplicate ==
    /\ pc = "step2" /\ dupq # <<>>
    /\ \E flt \in Faults :
         LET r == delete_file(files, dirs, Head(dupq), dry_run, flt)
         IN  Apply(r, TRUE) /\ Goto(r, "step2")
    /\ dupq' = Tail(dupq)
    /\ UNCHANGED <<prog, structure, dry_run, rollback_csv, dirq, declq,
                   processed, q3, q4, run, dup>>

\* Step 3 begins: collect every file under ROOT.
Step2Done ==
    /\ pc = "step2" /\ dupq = <<>> /\ declq = <<>>
    /\ pc' = "step3"
    /\ q3' = WalkFiles(files, dirs)
    /\ UNCHANGED <<prog, structure, dry_run, log, dirq, declq, processed,
                   dupq, q4, nfail, run, hist, dup>>
    /\ FsUnchanged

\* Step 3: examine the next collected file.
CleanupFile ==
    /\ pc = "step3" /\ q3 # <<>>
    /\ \E flt \in Faults :
         LET r == cleanup_file(files, dirs, Head(q3),
                               defined_file_targets(structure), dry_run, flt)
         IN  Apply(r, TRUE) /\ Goto(r, "step3")
    /\ q3' = Tail(q3)
    /\ UNCHANGED <<prog, structure, dry_run, rollback_csv, dirq, declq,
                   processed, dupq, q4, run, dup>>

\* Step 4 begins: delete_empty_directories starts its bottom-up walk.
Step3Done ==
    /\ pc = "step3" /\ q3 = <<>>
    /\ pc' = "step4"
    /\ q4' = WalkBottomUp(files, dirs)
    /\ UNCHANGED <<prog, structure, dry_run, log, dirq, declq, processed,
                   dupq, q3, nfail, run, hist, dup>>
    /\ FsUnchanged

\* Step 4: visit the next directory of the walk.
PruneDir ==
    /\ pc = "step4" /\ q4 # <<>>
    /\ \E flt \in Faults :
         LET r == prune_directory(files, dirs, Head(q4),
                                  expected_directory_paths(structure),
                                  dry_run, flt)
         IN  Apply(r, FALSE) /\ Goto(r, "step4")
    /\ q4' = Tail(q4)
    /\ UNCHANGED <<prog, structure, dry_run, rollback_csv, dirq, declq,
                   processed, dupq, q3, run, dup>>

\* delete_empty_directories returns; a real run goes on to write the journal.
Step4Done ==
    /\ pc = "step4" /\ q4 = <<>>
    /\ pc' = IF prog # "ops" /\ ~dry_run THEN "gen" ELSE "done"
    /\ UNCHANGED <<prog, structure, dry_run, log, nfail, run, hist, dup>>
    /\ FsUnchanged /\ QueuesUnchanged

\* The real run ends with generate_rollback_file.
Generate ==
    /\ pc = "gen"
    /\ \E flt \in {"none", "op"} :
         LET g == generate_rollback_file(rollback_data, rollback_csv, flt)
         IN  /\ g.failed => nfail < MaxFail
             /\ rollback_csv' = g.csv
             /\ nfail' = IF g.failed THEN nfail + 1 ELSE nfail
             /\ hist' = [hist EXCEPT !.wrote = g.wrote,
                                     !.genfailed = g.failed]
    /\ pc' = "done"
    /\ UNCHANGED <<prog, structure, dry_run, files, dirs, rollback_data, log,
                   run, dup>>
    /\ QueuesUnchanged

---------------------------------------------------------------------------
(* Direct calls of the file operations *)

OpsCall ==
    /\ prog = "ops" /\ pc = "start"
    /\ \E dr \in BOOLEAN, flt \in Faults, src \in OpPaths, dst \in OpPaths :
         /\ dry_run' = dr
         /\ \/ LET r == move_file(files, dirs, src, dst, dr, flt)
               IN  Apply(r, FALSE) /\ Goto(r, "done") /\ q4' = q4
            \/ /\ src = dst
               /\ LET r == delete_file(files, dirs, src, dr, flt)
                  IN  Apply(r, TRUE) /\ Goto(r, "done") /\ q4' = q4
            \/ /\ src = dst
               /\ LET r == create_empty_file(files, dirs, src, dr, flt)
                  IN  Apply(r, FALSE) /\ Goto(r, "done") /\ q4' = q4
            \/ /\ src = dst /\ flt = "none"
               /\ pc' = "step4"
               /\ q4' = WalkBottomUp(files, dirs)
               /\ UNCHANGED <<files, dirs, rollback_data, log, nfail, hist>>
    /\ UNCHANGED <<prog, structure, rollback_csv, dirq, declq, processed,
                   dupq, q3, run, dup>>

---------------------------------------------------------------------------
(* handle_duplicates *)

\* duplicates_pending_deletion_<timestamp> below root_dir.
duplicates_folder == <<"duplicates_pending_deletion">>

\* os.path.splitext of the base names of the universe.
Splitext(base_name) ==
    CASE base_name = "report.txt" -> [name |-> "report", ext |-> ".txt"]
      [] base_name = "report_1.txt" -> [name |-> "report_1", ext |-> ".txt"]
      [] base_name = "report (2).txt" -> [name |-> "report (2)", ext |-> ".txt"]
      [] base_name = "summary.txt" -> [name |-> "summary", ext |-> ".txt"]
      [] base_name = "processor.py" -> [name |-> "processor", ext |-> ".py"]
      [] base_name = "junk.txt" -> [name |-> "junk", ext |-> ".txt"]
      [] OTHER -> [name |-> base_name, ext |-> ""]

\* The loop that looks for a free name in the quarantine directory, entered
\* with new_path taken and the counter at its current value.
RECURSIVE NextFreePath(_, _, _)
NextFreePath(f, base_name, counter) ==
    LET sp == Splitext(base_name)
        new_path == Join(duplicates_folder,
                         sp.name \o "_" \o ToString(counter) \o sp.ext)
    IN  IF new_path \in DOMAIN f
        THEN NextFreePath(f, base_name, counter + 1)
        ELSE new_path

\* The quarantine path without the search for a free name.
QuarantinePath_base_name(f, file_to_move) ==
    Join(duplicates_folder, Basename(file_to_move))

QuarantinePath(f, file_to_move) ==
    LET base_name == Basename(file_to_move)
        new_path == Join(duplicates_folder, base_name)
    IN  IF new_path \in DOMAIN f
        THEN NextFreePath(f, base_name, 1)
        ELSE new_path

\* The body of the move loop for one file: flt = "op" fails shutil.move,
\* flt = "zip" fails backup_zip.write; both are caught by the loop.
quarantine_move(f, archive, file_to_move, flt) ==
    LET new_path == QuarantinePath(f, file_to_move)
    IN  IF file_to_move \notin DOMAIN f \/ flt = "op"
        THEN [files |-> f, archive |-> archive, moved |-> 0,
              failed |-> TRUE, raised |-> FALSE]
        ELSE IF flt = "zip"
        THEN [files |-> Moved(f, file_to_move, new_path),
              archive |-> archive, moved |-> 0, failed |-> TRUE,
              raised |-> FALSE]
        ELSE [files |-> Moved(f, file_to_move, new_path),
              archive |-> archive \cup
                  { [arcname |-> new_path, content |-> f[file_to_move]] },
              moved |-> 1, failed |-> FALSE, raised |-> FALSE]

\* A file name is a sequence of characters, each a string; "TAB" and "NL"
\* stand for the tab and the newline.
IsDigit(c) == c \in {"0", "1", "2", "3", "4", "5", "6", "7", "8", "9"}

\* The characters \s matches.
IsSpace(c) == c \in {" ", "TAB", "NL"}

\* os.path.splitext of a base name: the extension starts at the last dot,
\* unless only dots stand before it.
os_path_splitext(p) ==
    LET dots == { i \in 1..Len(p) : p[i] = "." }
    IN  IF dots = {} THEN [name |-> p, ext |-> <<>>]
        ELSE LET dotIndex == CHOOSE i \in dots : \A j \in dots : j <= i
             IN  IF \E i \in 1..(dotIndex - 1) : p[i] # "."
                 THEN [name |-> SubSeq(p, 1, dotIndex - 1),
                       ext |-> SubSeq(p, dotIndex, Len(p))]
                 ELSE [name |-> p, ext |-> <<>>]

\* Where a match of (_\d+|\s\(\d+\)) ending at position e of name starts, or
\* 0 if there is none.
MatchStart(name, e) ==
    LET AllDigits(i, j) == i <= j /\ \A k \in i..j : IsDigit(name[k])
        underscore == { i \in 1..e : name[i] = "_" /\ AllDigits(i + 1, e) }
        bracket == { i \in 1..e :
                       /\ IsSpace(name[i]) /\ i + 3 <= e
                       /\ name[i + 1] = "(" /\ name[e] = ")"
                       /\ AllDigits(i + 2, e - 1) }
    IN  IF underscore \cup bracket = {} THEN 0
        ELSE CHOOSE i \in underscore \cup bracket :
                 \A j \in underscore \cup bracket : i <= j

\* pattern.sub('', name) for the pattern (_\d+|\s\(\d+\))$: the leftmost
\* match is cut out; $ stands at the end of the name and also before a
\* newline that ends it.
pattern_sub(name) ==
    LET ends == IF name # <<>> /\ name[Len(name)] = "NL"
                THEN <<Len(name) - 1, Len(name)>> ELSE <<Len(name)>>
        Cut(e) == SubSeq(name, 1, MatchStart(name, e) - 1)
                  \o SubSeq(name, e + 1, Len(name))
        hits == { e \in SeqToSet(ends) : MatchStart(name, e) > 0 }
    IN  IF hits = {} THEN name
        ELSE Cut(CHOOSE e \in hits :
                    \A x \in hits : MatchStart(name, e) <= MatchStart(name, x))

\* is_numbered_duplicate on two paths whose last component is the base name
\* as a sequence of characters.
is_numbered_duplicate(file_path1, file_path2) ==
    LET s1 == os_path_splitext(Basename(file_path1))
        s2 == os_path_splitext(Basename(file_path2))
    IN  IF s1.ext # s2.ext THEN FALSE
        ELSE pattern_sub(s1.name) = pattern_sub(s2.name) /\ s1.name # s2.name

\* The characters of the base names of the trees of the duplicate cleaner.
Chars(base_name) ==
    CASE base_name = "report.txt" ->
           <<"r", "e", "p", "o", "r", "t", ".", "t", "x", "t">>
      [] base_name = "report_1.txt" ->
           <<"r", "e", "p", "o", "r", "t", "_", "1", ".", "t", "x", "t">>
      [] base_name = "report (2).txt" ->
           <<"r", "e", "p", "o", "r", "t", " ", "(", "2", ")", ".", "t", "x", "t">>
      [] base_name = "summary.txt" ->
           <<"s", "u", "m", "m", "a", "r", "y", ".", "t", "x", "t">>

\* A path of such a tree with its base name spelled out.
CharPath(p) == SubSeq(p, 1, Len(p) - 1) \o << Chars(p[Len(p)]) >>

\* The classification holding as soon as one pair looks numbered.
numbered_duplicates_any(group_files) ==
    \E i \in 1..Len(group_files) : \E j \in (i + 1)..Len(group_files) :
        is_numbered_duplicate(CharPath(group_files[i]),
                              CharPath(group_files[j]))

\* all(is_numbered_duplicate(files[i], files[j]) for i < j)
numbered_duplicates(group_files) ==
    \A i \in 1..Len(group_files) : \A j \in (i + 1)..Len(group_files) :
        is_numbered_duplicate(CharPath(group_files[i]),
                              CharPath(group_files[j]))

\* The remark printed under the heading of each group.
Remarks(groups) ==
    [ k \in 1..Len(groups) |->
        IF numbered_duplicates(groups[k].files) THEN "Numbered"
        ELSE "Suspect" ]

\* The index file listing the first group only.
IndexLines_first_group(groups) ==
    IF groups = <<>> THEN <<>>
    ELSE << [hash |-> Head(groups).hash] >>
         \o [ i \in 1..Len(Head(groups).files) |->
                [n |-> i, f |-> Head(groups).files[i]] ]

\* The lines of the index file for the groups.
RECURSIVE IndexLines(_)
IndexLines(groups) ==
    IF groups = <<>> THEN <<>>
    ELSE LET g == Head(groups)
         IN  IF Len(g.files) > 1
             THEN << [hash |-> g.hash] >>
                  \o [ i \in 1..Len(g.files) |-> [n |-> i, f |-> g.files[i]] ]
                  \o IndexLines(Tail(groups))
             ELSE IndexLines(Tail(groups))

\* Every member of every group.
RECURSIVE AllMembers(_)
AllMembers(groups) ==
    IF groups = <<>> THEN <<>>
    ELSE Head(groups).files \o AllMembers(Tail(groups))

\* files[1:] of the groups that look numbered, nothing of the others.
RECURSIVE AllButFirst_of_numbered(_)
AllButFirst_of_numbered(groups) ==
    IF groups = <<>> THEN <<>>
    ELSE (IF numbered_duplicates(Head(groups).files)
          THEN Tail(Head(groups).files) ELSE <<>>)
         \o AllButFirst_of_numbered(Tail(groups))

\* Keep-first: files[1:] of every group.
RECURSIVE AllButFirst(_)
AllButFirst(groups) ==
    IF groups = <<>> THEN <<>>
    ELSE (IF Len(Head(groups).files) > 1 THEN Tail(Head(groups).files)
          ELSE <<>>) \o AllButFirst(Tail(groups))

\* int(x.strip()) of one entry of a reply: a number, or ValueError.
IsNumeric(tok) == tok \in {"0", "1", "2", "3", "4"}

ParseInt(tok) ==
    CASE tok = "0" -> 0
      [] tok = "1" -> 1
      [] tok = "2" -> 2
      [] tok = "3" -> 3
      [] tok = "4" -> 4

\* A reply taken entry by entry: the entries in range select their files and
\* the others are dropped.
parse_choices_valid_entries(choices, group_files) ==
    LET Valid(tok) == IsNumeric(tok) /\ ParseInt(tok) >= 1
                      /\ ParseInt(tok) <= Len(group_files)
        valid == SelectSeq(choices, Valid)
    IN  [accepted |-> valid # <<>>,
         selected |-> [ i \in 1..Len(valid) |-> group_files[ParseInt(valid[i])] ]]

\* A reply to the selection prompt for a group: accepted with the files it
\* selects, or not accepted.
parse_choices(choices, group_files) ==
    IF \E i \in 1..Len(choices) : ~ IsNumeric(choices[i])
    THEN [accepted |-> FALSE, selected |-> <<>>]
    ELSE LET indices_to_move ==
                 [ i \in 1..Len(choices) |-> ParseInt(choices[i]) - 1 ]
         IN  IF \A i \in 1..Len(indices_to_move) :
                    0 <= indices_to_move[i]
                    /\ indices_to_move[i] < Len(group_files)
             THEN [accepted |-> TRUE,
                   selected |-> [ i \in 1..Len(indices_to_move) |->
                                    group_files[indices_to_move[i] + 1] ]]
             ELSE [accepted |-> FALSE, selected |-> <<>>]

\* os.path.getsize of a file.
get_file_size(f, file_path) ==
    IF file_path \in DOMAIN f THEN Len(f[file_path]) ELSE -1

\* The value get_file_hash returns for a file it could not read.
None == <<>>

\* get_file_hash taking every file as readable.
get_file_hash_ignoring_errors(f, unreadable, file_path) ==
    <<"sha256">> \o f[file_path]

\* The SHA-256 digest of a file, equal for equal contents only, or None for
\* a file of the set unreadable, on which open or read raises.
get_file_hash(f, unreadable, file_path) ==
    IF file_path \in unreadable THEN None
    ELSE <<"sha256">> \o f[file_path]

\* A sequence back to front.
Reversed(seq) == [ i \in 1..Len(seq) |-> seq[Len(seq) + 1 - i] ]

\* A defaultdict(list) filled by appending the elements of seq under
\* key[element]: its items in insertion order of the keys.
defaultdict_list(seq, key) ==
    LET idx == [ i \in 1..Len(seq) |-> i ]
        First(i) == \A j \in 1..(i - 1) : key[seq[j]] # key[seq[i]]
        firsts == SelectSeq(idx, First)
    IN  [ k \in 1..Len(firsts) |->
            LET Same(x) == key[x] = key[seq[firsts[k]]]
            IN  [key |-> key[seq[firsts[k]]], paths |-> SelectSeq(seq, Same)] ]

\* The items of a dict whose list has more than one path.
MoreThanOne(items) ==
    LET Several(it) == Len(it.paths) > 1
    IN  SelectSeq(items, Several)

\* The paths of the items of a dict, last item and last path first.
RECURSIVE AllPaths_back_to_front(_)
AllPaths_back_to_front(items) ==
    IF items = <<>> THEN <<>>
    ELSE AllPaths_back_to_front(Tail(items)) \o Reversed(Head(items).paths)

\* The paths of the items of a dict, item after item.
RECURSIVE AllPaths(_)
AllPaths(items) ==
    IF items = <<>> THEN <<>>
    ELSE Head(items).paths \o AllPaths(Tail(items))

\* root[len(root_dir.rstrip(os.sep)) + 1:].count(os.sep) for the directory
\* root of the walk: the separators left after cutting off root_dir and one
\* more character.
relative_depth(root) == IF Len(root) = 0 THEN 0 ELSE Len(root) - 1

\* The first loop of find_duplicates: the files recorded in size_map, in
\* walk order.
scanned_files(f, d, depth_limit) ==
    LET Scanned(full_path) ==
            /\ relative_depth(Dirname(full_path)) <= depth_limit
            /\ get_file_size(f, full_path) >= 0
    IN  SelectSeq(WalkFiles(f, d), Scanned)

\* Every scanned file is handed to get_file_hash.
hashed_files_all(f, d, depth_limit) == scanned_files(f, d, depth_limit)

\* Only the files of the first size bucket are handed to get_file_hash.
hashed_files_first_bucket(f, d, depth_limit) ==
    LET Size == [ full_path \in DOMAIN f |-> get_file_size(f, full_path) ]
        by_size == MoreThanOne(defaultdict_list(
                                   scanned_files(f, d, depth_limit), Size))
    IN  IF by_size = <<>> THEN <<>> ELSE Head(by_size).paths

\* The files handed to get_file_hash by the second loop, in order: those of
\* the size buckets with more than one path.
hashed_files(f, d, depth_limit) ==
    LET Size == [ full_path \in DOMAIN f |-> get_file_size(f, full_path) ]
        size_map == defaultdict_list(scanned_files(f, d, depth_limit), Size)
        potential_duplicates_by_size == MoreThanOne(size_map)
    IN  AllPaths(potential_duplicates_by_size)

\* find_duplicates stopping after the size pass: the groups of equal size.
find_duplicates_by_size(f, d, depth_limit, unreadable) ==
    LET Size == [ full_path \in DOMAIN f |-> get_file_size(f, full_path) ]
        by_size == MoreThanOne(defaultdict_list(
                                   scanned_files(f, d, depth_limit), Size))
    IN  [ k \in 1..Len(by_size) |->
            [hash |-> <<"size", by_size[k].key>>, files |-> by_size[k].paths] ]

\* find_duplicates: the items of the dict it returns, in order.
find_duplicates(f, d, depth_limit, unreadable) ==
    LET Hash == [ full_path \in DOMAIN f |->
                    get_file_hash(f, unreadable, full_path) ]
        Truthy(full_path) == Hash[full_path] # None
        hash_map == defaultdict_list(
                        SelectSeq(hashed_files(f, d, depth_limit), Truthy),
                        Hash)
        duplicates == MoreThanOne(hash_map)
    IN  [ k \in 1..Len(duplicates) |->
            [hash |-> duplicates[k].key, files |-> duplicates[k].paths] ]

DupCandFiles ==
    { <<"report.txt">>, <<"report_1.txt">>, <<"summary.txt">>,
      <<"old", "report.txt">>, <<"old", "sub", "report (2).txt">> }

\* Contents: two of one size and one of another.
DupContents == { <<"A">>, <<"B">>, <<"C", "C">> }

\* The depth_limit arguments tried.
DepthLimits == {0, 1}

Confirmations == {"yes", "YES", "no", "select", "maybe"}

ChoiceReplies ==
    { <<"1">>, <<"2">>, <<"1", "2">>, <<"2", "2">>, <<"3">>, <<"0">>,
      <<"x">>, <<"1", "x">> }

\* The start of the duplicate cleaner on a tree of DupCandFiles, every file
\* of it readable or, with some_unreadable, any of them not.
InitCleaner(some_unreadable) ==
    /\ prog = "dups"
    /\ pc = "scan"
    /\ structure = Layout1
    /\ dry_run = FALSE
    /\ \E present \in SUBSET DupCandFiles :
         \E content \in [present -> DupContents], depth_limit \in DepthLimits,
            unreadable \in (IF some_unreadable THEN SUBSET present ELSE {{}}) :
           LET t == [files |-> content,
                     dirs |-> UNION { Ancestors(Dirname(p)) : p \in present }
                              \cup {ROOT}]
           IN  /\ files = t.files
               /\ dirs = t.dirs
               /\ hist = [init |-> t, fs0 |-> t, start |-> 0, fail0 |-> 0,
                          answer |-> "none", prev |-> NoPrev, removed |-> {},
                          wrote |-> FALSE, genfailed |-> FALSE,
                          csv0 |-> NoCsv, last |-> NoDid, nops |-> 0]
               /\ dup = [valid |-> TRUE,
                         depth_limit |-> depth_limit,
                         unreadable |-> unreadable,
                         scanned |-> <<>>,
                         hashed |-> <<>>,
                         duplicates |-> <<>>,
                         index_file |-> <<>>,
                         remarks |-> <<>>,
                         choices |-> <<>>,
                         confirmation |-> "none",
                         files_to_move |-> <<>>,
                         g |-> 1,
                         zip_open |-> FALSE,
                         archive |-> {},
                         moved_count |-> 0]
    /\ rollback_data = <<>>
    /\ rollback_csv = NoCsv
    /\ log = <<>>
    /\ dirq = <<>>
    /\ declq = <<>>
    /\ processed = {}
    /\ dupq = <<>>
    /\ q3 = <<>>
    /\ q4 = <<>>
    /\ nfail = 0
    /\ run = 0

InitDups == InitCleaner(FALSE)

InitFind == InitCleaner(TRUE)

DupFrame ==
    UNCHANGED <<prog, structure, dry_run, rollback_data, rollback_csv, log,
                dirq, declq, processed, dupq, q3, q4, run, hist>>

\* find_duplicates(root_dir, depth_limit); its result is handed to
\* handle_duplicates.
DupScan ==
    /\ prog = "dups" /\ pc = "scan"
    /\ pc' = "start"
    /\ dup' = [dup EXCEPT
                 !.scanned = scanned_files(files, dirs, dup.depth_limit),
                 !.hashed = hashed_files(files, dirs, dup.depth_limit),
                 !.duplicates = find_duplicates(files, dirs, dup.depth_limit,
                                                dup.unreadable)]
    /\ UNCHANGED <<files, dirs, nfail>>
    /\ DupFrame

\* handle_duplicates up to the prompt: nothing to do, or the quarantine
\* directory and the index file.
DupEnter ==
    /\ prog = "dups" /\ pc = "start"
    /\ IF dup.duplicates = <<>>
       THEN /\ pc' = "done"
            /\ UNCHANGED <<dirs, dup>>
       ELSE /\ pc' = "prompt"
            /\ dirs' = dirs \cup {duplicates_folder}
            /\ dup' = [dup EXCEPT !.index_file = IndexLines(dup.duplicates),
                                  !.remarks = Remarks(dup.duplicates)]
    /\ UNCHANGED <<files, nfail>>
    /\ DupFrame

\* After the replies: open the archive and start moving, or nothing to move.
AfterReplies(files_to_move) ==
    IF files_to_move # <<>> THEN "moving" ELSE "done"

\* The yes/no/select prompt.
DupPrompt ==
    /\ prog = "dups" /\ pc = "prompt"
    /\ \E reply \in Confirmations :
         LET confirmation == Lower(reply)
         IN  CASE confirmation = "yes" ->
                    /\ dup' = [dup EXCEPT
                                 !.confirmation = confirmation,
                                 !.files_to_move = AllButFirst(dup.duplicates),
                                 !.zip_open = AllButFirst(dup.duplicates) # <<>>]
                    /\ pc' = AfterReplies(AllButFirst(dup.duplicates))
               [] confirmation = "no" ->
                    /\ dup' = [dup EXCEPT !.confirmation = confirmation]
                    /\ pc' = "done"
               [] confirmation = "select" ->
                    /\ dup' = [dup EXCEPT !.confirmation = confirmation,
                                          !.files_to_move = <<>>,
                                          !.g = 1]
                    /\ pc' = "select"
               [] OTHER ->
                    /\ dup' = [dup EXCEPT !.confirmation = confirmation]
                    /\ pc' = "prompt"
    /\ UNCHANGED <<files, dirs, nfail>>
    /\ DupFrame

\* One reply to the selection prompt of group dup.g.
DupSelect ==
    /\ prog = "dups" /\ pc = "select"
    /\ \E choices \in ChoiceReplies :
         LET sel == parse_choices(choices, dup.duplicates[dup.g].files)
             ftm == dup.files_to_move \o sel.selected
         IN  IF ~ sel.accepted
             THEN /\ dup' = [dup EXCEPT !.choices = choices]
                  /\ pc' = "select"
             ELSE IF dup.g < Len(dup.duplicates)
             THEN /\ dup' = [dup EXCEPT !.choices = choices,
                                        !.files_to_move = ftm, !.g = @ + 1]
                  /\ pc' = "select"
             ELSE /\ dup' = [dup EXCEPT !.choices = choices,
                                        !.files_to_move = ftm, !.g = @ + 1,
                                        !.zip_open = ftm # <<>>]
                  /\ pc' = AfterReplies(ftm)
    /\ UNCHANGED <<files, dirs, nfail>>
    /\ DupFrame

\* The move loop: quarantine and archive the next file.
DupMove ==
    /\ prog = "dups" /\ pc = "moving" /\ dup.files_to_move # <<>>
    /\ \E flt \in {"none", "op", "zip"} :
         LET r == quarantine_move(files, dup.archive,
                                  Head(dup.files_to_move), flt)
         IN  /\ (r.failed /\ Head(dup.files_to_move) \in DOMAIN files)
                   => nfail < MaxFail
             /\ files' = r.files
             /\ nfail' = IF r.failed /\ Head(dup.files_to_move) \in DOMAIN files
                         THEN nfail + 1 ELSE nfail
             /\ dup' = [dup EXCEPT !.files_to_move = Tail(@),
                                   !.archive = r.archive,
                                   !.moved_count = @ + r.moved]
             /\ Goto(r, "moving")
    /\ UNCHANGED dirs
    /\ DupFrame

\* The loop is over: the archive is closed and the summary printed.
DupDone ==
    /\ prog = "dups" /\ pc = "moving" /\ dup.files_to_move = <<>>
    /\ pc' = "done"
    /\ dup' = [dup EXCEPT !.zip_open = FALSE]
    /\ UNCHANGED <<files, dirs, nfail>>
    /\ DupFrame

NextDups ==
    \/ DupScan
    \/ DupEnter
    \/ DupPrompt
    \/ DupSelect
    \/ DupMove
    \/ DupDone

NextOrg ==
    \/ MainParse
    \/ MainConfirm
    \/ LibCall
    \/ Enter
    \/ EnsureDir
    \/ Step1Done
    \/ ProcessFile
    \/ DeleteDuplicate
    \/ Step2Done
    \/ CleanupFile
    \/ Step3Done
    \/ PruneDir
    \/ Step4Done
    \/ Generate
    \/ OpsCall

Init == InitOrg \/ InitDups

Next == NextOrg \/ NextDups

Spec == Init /\ [][Next]_vars

\* find_duplicates alone, on trees that may hold unreadable files.
SpecFind == InitFind /\ [][DupScan]_vars

---------------------------------------------------------------------------
(* is_numbered_duplicate alone *)

\* The base names tried: a stem, a counter suffix or something close to
\* one, a newline or not, an extension or not.
NameStems == { <<>>, <<"a">>, <<"b">>, <<"a", "_", "1">> }

NameSuffixes ==
    { <<>>, <<"_", "1">>, <<"_", "2">>, <<"_", "1", "2">>, <<"_">>,
      <<" ", "(", "1", ")">>, <<" ", "(", "2", ")">>,
      <<"TAB", "(", "1", ")">>, <<"(", "1", ")">>, <<" ", "(", ")">>,
      <<"_", "1", " ", "(", "2", ")">> }

NameTails == { <<>>, <<"NL">> }

NameExts == { <<>>, <<".", "x">>, <<".", "y">> }

BaseNameSet ==
    { st \o su \o tl \o ex :
        st \in NameStems, su \in NameSuffixes, tl \in NameTails,
        ex \in NameExts } \ { <<>> }

InitNames ==
    /\ prog = "names"
    /\ pc = "call"
    /\ structure = Layout1
    /\ dry_run = FALSE
    /\ files = <<>>
    /\ dirs = {ROOT}
    /\ hist = [init |-> [files |-> <<>>, dirs |-> {ROOT}],
               fs0 |-> [files |-> <<>>, dirs |-> {ROOT}],
               start |-> 0, fail0 |-> 0, answer |-> "none", prev |-> NoPrev,
               removed |-> {}, wrote |-> FALSE, genfailed |-> FALSE,
               csv0 |-> NoCsv, last |-> NoDid, nops |-> 0]
    /\ rollback_data = <<>>
    /\ rollback_csv = NoCsv
    /\ log = <<>>
    /\ dirq = <<>>
    /\ declq = <<>>
    /\ processed = {}
    /\ dupq = <<>>
    /\ q3 = <<>>
    /\ q4 = <<>>
    /\ nfail = 0
    /\ run = 0
    /\ \E b1 \in BaseNameSet, b2 \in BaseNameSet, d1 \in {ROOT, <<"old">>} :
         dup = [valid |-> FALSE,
                file_path1 |-> d1 \o <<b1>>,
                file_path2 |-> <<b2>>,
                result |-> FALSE]

\* One call of is_numbered_duplicate.
NamesCall ==
    /\ prog = "names" /\ pc = "call"
    /\ pc' = "done"
    /\ dup' = [dup EXCEPT
                 !.result = is_numbered_duplicate(dup.file_path1,
                                                  dup.file_path2)]
    /\ UNCHANGED <<prog, structure, dry_run, files, dirs, rollback_data,
                   rollback_csv, log, dirq, declq, processed, dupq, q3, q4,
                   nfail, run, hist>>

SpecNames == InitNames /\ [][NamesCall]_vars

---------------------------------------------------------------------------
(* Replaying the rollback file, as its rows are documented: MOVE moves     *)
(* path1 to path2, DELETE deletes path1, CREATE creates an empty file at   *)
(* path1 and CREATE_DIR creates the directory path1.  Missing parent       *)
(* directories are created on the way.                                     *)

ReplayRow(t, row) ==
    CASE row.action = "MOVE" ->
           IF row.path1 \in DOMAIN t.files
           THEN [files |-> Moved(t.files, row.path1, row.path2),
                 dirs |-> t.dirs \cup Ancestors(Dirname(row.path2))]
           ELSE t
      [] row.action = "DELETE" ->
           [files |-> Removed(t.files, row.path1), dirs |-> t.dirs]
      [] row.action = "CREATE" ->
           [files |-> Written(t.files, row.path1),
            dirs |-> t.dirs \cup Ancestors(Dirname(row.path1))]
      [] row.action = "CREATE_DIR" ->
           [files |-> t.files, dirs |-> t.dirs \cup Ancestors(row.path1)]
      [] OTHER -> t

\* The rows replayed last to first.
RECURSIVE ReplayReverse(_, _)
ReplayReverse(t, rows) ==
    IF rows = <<>> THEN t
    ELSE ReplayReverse(ReplayRow(t, rows[Len(rows)]),
                       SubSeq(rows, 1, Len(rows) - 1))

Rows(rb) == [ i \in 1..Len(rb) |-> CsvRow(rb[i]) ]

\* The journal entries appended since the running call began.
RunJournal == SubSeq(rollback_data, hist.start + 1, Len(rollback_data))

Tree == [files |-> files, dirs |-> dirs]

\* The call of organize_project has returned.
RunOver == prog \in {"main", "lib"} /\ pc = "done"

\* No filesystem call has failed since the running call began.
NoFailure == nfail = hist.fail0

\* The archive container of the run.
Archive == IF dup.valid THEN dup.archive ELSE {}

\* The actions a log reports, in order, without the dry-run mark.
ActionsOf(lg) ==
    LET IsAction(l) == l.act \in {"MKDIR", "MOVE", "CREATE", "DELETE", "RMDIR"}
        sel == SelectSeq(lg, IsAction)
    IN  [ i \in 1..Len(sel) |->
            [act |-> sel[i].act, p1 |-> sel[i].p1, p2 |-> sel[i].p2] ]

HasLine(lg, act) == \E i \in 1..Len(lg) : lg[i].act = act

---------------------------------------------------------------------------
(* Claims *)

\* C1: after a real run of organize_project (here: one in which no action
\* fails), replaying the journal of the run in reverse restores the tree the
\* run started from: the same files with the same content and the same
\* directories.
C1_ReplayRestoresTree ==
    (RunOver /\ prog = "main" /\ ~dry_run /\ NoFailure)
        => ReplayReverse(Tree, Rows(RunJournal)) = hist.fs0

\* C2: in a real run of the reconciler every file removed by step 2 or
\* step 3 is still held by the quarantine directory and by the archive
\* container of the run.
C2_RemovedFilesArchived ==
    (prog \in {"main", "lib"} /\ ~dry_run)
        => \A r \in hist.removed :
             /\ \E a \in Archive : a.content = r.content
             /\ \E q \in DOMAIN files :
                  Dirname(q) = duplicates_folder /\ files[q] = r.content

C4_DryRunReportsRealActions ==
    (/\ prog = "lib" /\ pc = "done" /\ ~dry_run /\ NoFailure
     /\ hist.prev.valid /\ hist.prev.dry_run /\ hist.prev.fs0 = hist.fs0)
        => ActionsOf(hist.prev.log) = ActionsOf(log)

\* C5: in a real call of move_file, delete_file, create_empty_file or of the
\* removal of an empty directory, the journal grows by exactly the inverse
\* entry of the mutation in the step that performs it, and by nothing in a
\* step whose mutation failed or whose file was missing.
InverseEntry(did) ==
    CASE did.op = "MOVE" ->
           [action |-> "MOVE", source |-> did.p2, destination |-> did.p1]
      [] did.op = "DELETE" -> [action |-> "CREATE", path |-> did.p1]
      [] did.op = "CREATE" -> [action |-> "DELETE", path |-> did.p1]
      [] did.op = "RMDIR" -> [action |-> "CREATE_DIR", path |-> did.p1]

Performed(did) ==
    CASE did.op = "MOVE" ->
           /\ did.p1 \in DOMAIN files
           /\ files' = Moved(files, did.p1, did.p2)
      [] did.op = "DELETE" ->
           /\ did.p1 \in DOMAIN files
           /\ files' = Removed(files, did.p1) /\ dirs' = dirs
      [] did.op = "CREATE" -> files' = Written(files, did.p1)
      [] did.op = "RMDIR" ->
           /\ did.p1 \in dirs
           /\ dirs' = dirs \ {did.p1} /\ files' = files

C5_Step ==
    prog' # "dups" =>
        IF hist'.nops # hist.nops
              /\ hist'.last.op \in {"MOVE", "DELETE", "CREATE", "RMDIR"}
        THEN IF hist'.last.ok
             THEN /\ ~dry_run'
                  /\ nfail' = nfail
                  /\ Performed(hist'.last)
                  /\ rollback_data' =
                        Append(rollback_data, InverseEntry(hist'.last))
             ELSE /\ files' = files
                  /\ dirs \subseteq dirs'
                  /\ hist'.last.op \in {"DELETE", "RMDIR"} => dirs' = dirs
                  /\ rollback_data' = rollback_data
        ELSE /\ files' = files
             /\ rollback_data' = rollback_data

C5_JournalFollowsMutation == [][C5_Step]_vars

C5_Witness ==
    /\ prog = "main" /\ pc = "done" /\ ~dry_run
    /\ nfail > 0 /\ HasLine(log, "ERROR")
    /\ Len(rollback_data) > 0
    /\ files # hist.fs0.files

\* C6: a failed action never aborts the batch: no exception leaves the
\* reconciler or the move loop of handle_duplicates, and after a failure
\* the process still has a next step until the run has reached its end.
C6_FailureNeverAborts ==
    /\ pc # "aborted"
    /\ (nfail > 0 /\ pc \notin {"done", "exit"}) => ENABLED Next

C6_Witness ==
    /\ prog = "main" /\ pc = "done" /\ ~dry_run /\ hist.wrote
    /\ \E i \in 1..Len(log) : \E j \in (i + 1)..Len(log) :
         /\ log[i].act = "ERROR"
         /\ log[j].act \in {"MOVE", "CREATE", "DELETE", "RMDIR"}

\* C7: every real run of organize_project ends with a rollback file having
\* been written.
C7_AlwaysRollbackFile == (RunOver /\ ~dry_run) => hist.wrote

\* C7, amended: a real run of organize_project ends with the rollback file
\* written, one row per journal entry, exactly when the journal is not empty
\* at the end of the run and writing the file did not fail; with an empty
\* journal no rollback file is written.
C7_RollbackFileIffJournal ==
    (RunOver /\ ~dry_run)
        => /\ hist.wrote <=> (rollback_data # <<>> /\ ~hist.genfailed)
           /\ hist.wrote => rollback_csv = Rows(rollback_data)
           /\ ~hist.wrote => rollback_csv = hist.csv0

C7_Witness ==
    /\ RunOver /\ ~dry_run /\ hist.wrote
    /\ nfail > hist.fail0 /\ HasLine(log, "ERROR")
    /\ rollback_csv = Rows(rollback_data)

\* C8: a real call move_file(src, dst) with a file already at dst leaves the
\* content of the file at dst as it was and loses no content of src.
C8_MoveKeepsDestination ==
    (/\ prog = "ops" /\ pc = "done" /\ ~dry_run
     /\ hist.last.op = "MOVE"
     /\ hist.last.p1 # hist.last.p2
     /\ hist.last.p2 \in DOMAIN hist.init.files)
        => /\ hist.last.p2 \in DOMAIN files
           /\ files[hist.last.p2] = hist.init.files[hist.last.p2]
           /\ hist.last.p1 \in DOMAIN hist.init.files
                => \E q \in DOMAIN files :
                     files[q] = hist.init.files[hist.last.p1]

\* C9: the rollback file a run writes holds the inverse entries of the
\* actions of that run only, also when organize_project runs a second time
\* in one process (here: in a process in which no filesystem call fails).
C9_RollbackFileOfThisRunOnly ==
    (prog = "lib" /\ pc = "done" /\ ~dry_run /\ hist.wrote /\ nfail = 0)
        => rollback_csv = Rows(RunJournal)

\* C10: the script performs no move, delete or create before the user has
\* answered yes or y to its prompt and ends without any after another
\* answer; handle_duplicates moves no file before the answer yes or select.
C10_NothingBeforeConfirmation ==
    /\ (prog = "main" /\ ~dry_run
          /\ hist.answer \notin {"yes", "y", "YES", "Yes", "Y"})
          => /\ Tree = hist.init
             /\ rollback_data = <<>>
             /\ rollback_csv = NoCsv
             /\ pc \in {"start", "confirm", "exit"}
             /\ hist.answer # "none" => pc = "exit"
    /\ (prog = "dups" /\ dup.confirmation \notin {"yes", "select"})
          => /\ files = hist.init.files
             /\ dup.archive = {}
             /\ pc \in {"scan", "start", "prompt", "done"}

C10_Witness ==
    /\ prog = "main" /\ pc = "exit" /\ hist.answer = "no"
    /\ \E p \in DOMAIN files : p \notin defined_file_targets(structure)
                               /\ Basename(p) = "junk.txt"

\* The level of a file below the root: the root itself is level 0.
Level(p) == Len(Dirname(p))

\* The groups find_duplicates returned, as lists of paths.
Groups == [ k \in 1..Len(dup.duplicates) |-> dup.duplicates[k].files ]

\* C11: every group find_duplicates returns has at least two members, all
\* of the same size and digest (the same content); no path is in two groups
\* or twice in one group.
C11_GroupsSound ==
    (prog = "dups" /\ pc # "scan") =>
        LET gs == Groups
            f0 == hist.init.files
        IN  /\ \A k \in 1..Len(gs) :
                 /\ Len(gs[k]) >= 2
                 /\ \A i, j \in 1..Len(gs[k]) :
                      /\ gs[k][i] \in DOMAIN f0
                      /\ Len(f0[gs[k][i]]) = Len(f0[gs[k][j]])
                      /\ f0[gs[k][i]] = f0[gs[k][j]]
                      /\ (i # j => gs[k][i] # gs[k][j])
            /\ \A k1, k2 \in 1..Len(gs) :
                 k1 # k2 => SeqToSet(gs[k1]) \cap SeqToSet(gs[k2]) = {}

\* Two groups were returned from a tree that also holds two files of equal
\* size and different content.
C11_Witness ==
    /\ prog = "dups" /\ pc = "start"
    /\ Len(Groups) = 2
    /\ \E p, q \in SeqToSet(dup.scanned) :
         /\ Len(files[p]) = Len(files[q])
         /\ files[p] # files[q]

\* C12: find_duplicates(root, d) scans a file if and only if its directory
\* lies at most d levels below the root, and returns no deeper file.
C12_ScansWithinDepthOnly ==
    (prog = "dups" /\ pc # "scan") =>
        /\ \A p \in DOMAIN hist.init.files :
             p \in SeqToSet(dup.scanned) <=> Level(p) <= dup.depth_limit
        /\ \A k \in 1..Len(Groups) : \A i \in 1..Len(Groups[k]) :
             Level(Groups[k][i]) <= dup.depth_limit

\* The members of the groups other than the first of each.
NonFirst ==
    UNION { { Groups[k][i] : i \in 2..Len(Groups[k]) } : k \in 1..Len(Groups) }

\* The files of the initial tree that are no longer at their path.
Gone == { p \in DOMAIN hist.init.files : p \notin DOMAIN files }

\* The files in the quarantine directory.
Quarantined == { q \in DOMAIN files : Dirname(q) = duplicates_folder }

KeepFirstOver ==
    prog = "dups" /\ pc = "done" /\ dup.confirmation = "yes"

\* C13: after Keep-First ('yes') with no failed move, the first member of
\* every group is at its original path with its content, the files that left
\* their path are exactly the other members, and as many files are in the
\* quarantine directory and counted as moved.
C13_KeepFirstMovesTheRest ==
    (KeepFirstOver /\ nfail = 0) =>
        /\ \A k \in 1..Len(Groups) :
             /\ Groups[k][1] \in DOMAIN files
             /\ files[Groups[k][1]] = hist.init.files[Groups[k][1]]
        /\ Gone = NonFirst
        /\ Cardinality(Quarantined) = Cardinality(NonFirst)
        /\ \A p \in NonFirst :
             \E q \in Quarantined : files[q] = hist.init.files[p]
        /\ dup.moved_count = Cardinality(NonFirst)

\* Keep-First is over for a group of three members: one remains, two are in
\* the quarantine directory.
C13_Witness ==
    /\ KeepFirstOver /\ nfail = 0
    /\ Len(Groups) = 1 /\ Len(Groups[1]) = 3
    /\ Groups[1][1] \in DOMAIN files
    /\ Cardinality(Quarantined) = 2

\* C14: every quarantine move is journaled as a MOVE inverse entry pointing
\* back to the original path: after Keep-First the journal holds one such
\* entry per moved file.
C14_QuarantineMovesJournaled ==
    (KeepFirstOver /\ nfail = 0) =>
        /\ Len(rollback_data) = Cardinality(NonFirst)
        /\ \A p \in Gone :
             \E i \in 1..Len(rollback_data) :
                /\ rollback_data[i].action = "MOVE"
                /\ rollback_data[i].destination = p

\* C15: at the end of handle_duplicates every file that left its original
\* path is in the archive under its quarantine path, with its content, also
\* when an archive write failed.
C15_RelocatedFilesArchived ==
    (prog = "dups" /\ pc = "done") =>
        \A p \in Gone :
            \E a \in dup.archive :
               /\ a.content = hist.init.files[p]
               /\ a.arcname \in Quarantined
               /\ files[a.arcname] = a.content

\* An entry of a selection reply that is an integer within [1, n].
ValidEntry(tok, n) == \E k \in 1..n : tok = ToString(k)

ValidReply(reply, n) == \A i \in 1..Len(reply) : ValidEntry(reply[i], n)

\* The integer an entry in range stands for.
EntryValue(tok, n) == CHOOSE k \in 1..n : tok = ToString(k)

C16_Step ==
    (prog = "dups" /\ pc = "select") =>
        LET n == Len(Groups[dup.g])
        IN  /\ (dup'.files_to_move # dup.files_to_move \/ dup'.g # dup.g)
                  => ValidReply(dup'.choices, n)
            /\ ~ ValidReply(dup'.choices, n)
                  => /\ dup'.files_to_move = dup.files_to_move
                     /\ dup'.g = dup.g
                     /\ pc' = "select"
                     /\ files' = files

\* C16: in Explicit ('select') mode a reply is accepted only if every entry
\* is an integer within [1, len(group)]; any other reply adds no file to the
\* move list, leaves the selections of the other groups as they are, and
\* the same group is asked again.
C16_InvalidSelectionRejected == [][C16_Step]_vars

\* The second group was asked and answered with a reply that is not valid,
\* after a selection for the first group was accepted.
C16_Witness ==
    /\ prog = "dups" /\ pc = "select"
    /\ dup.g = 2 /\ dup.files_to_move # <<>>
    /\ dup.choices # <<>>
    /\ ~ ValidReply(dup.choices, Len(Groups[2]))

\* The index holds the heading of group k followed by its numbered members.
Indexed(k) ==
    \E j \in 1..Len(dup.index_file) :
        /\ "hash" \in DOMAIN dup.index_file[j]
        /\ dup.index_file[j].hash = dup.duplicates[k].hash
        /\ j + Len(Groups[k]) <= Len(dup.index_file)
        /\ \A i \in 1..Len(Groups[k]) :
             dup.index_file[j + i] = [n |-> i, f |-> Groups[k][i]]

\* C17: in Reject ('no') mode no file is moved, removed or archived, every
\* file keeps its path and content, and the index written lists every group.
C17_RejectChangesNothing ==
    (prog = "dups" /\ dup.confirmation = "no") =>
        /\ pc = "done"
        /\ files = hist.init.files
        /\ dup.archive = {}
        /\ dup.moved_count = 0
        /\ dup.files_to_move = <<>>
        /\ \A k \in 1..Len(Groups) : Indexed(k)

\* The answer was 'no' with two groups found.
C17_Witness ==
    /\ prog = "dups" /\ pc = "done" /\ dup.confirmation = "no"
    /\ Len(Groups) = 2

\* The pairs of paths of the trees for which is_numbered_duplicate holds.
NumberedPairs ==
    UNION { IF is_numbered_duplicate(CharPath(pq[1]), CharPath(pq[2]))
            THEN {pq} ELSE {} : pq \in DupCandFiles \X DupCandFiles }

EveryPairNumbered(g) ==
    \A i, j \in 1..Len(g) : i # j => <<g[i], g[j]>> \in NumberedPairs

\* The base names of the members of a group.
BaseNames(g) == { Basename(g[i]) : i \in 1..Len(g) }

\* C18: a group is reported Numbered if and only if is_numbered_duplicate
\* holds for every unordered pair of its members, and Suspect otherwise;
\* {report.txt, report_1.txt, report (2).txt} is reported Numbered and
\* {report.txt, summary.txt} Suspect.
C18_NumberedIffEveryPair ==
    (prog = "dups" /\ pc \notin {"scan", "start"} /\ dup.duplicates # <<>>) =>
        LET gs == Groups
        IN  /\ Len(dup.remarks) = Len(gs)
            /\ \A k \in 1..Len(gs) :
                 /\ dup.remarks[k] \in {"Numbered", "Suspect"}
                 /\ dup.remarks[k] = "Numbered" <=> EveryPairNumbered(gs[k])
                 /\ (Len(gs[k]) = 3 /\ BaseNames(gs[k])
                        = {"report.txt", "report_1.txt", "report (2).txt"})
                      => dup.remarks[k] = "Numbered"
                 /\ (Len(gs[k]) = 2
                     /\ BaseNames(gs[k]) = {"report.txt", "summary.txt"})
                      => dup.remarks[k] = "Suspect"

\* A group of three was reported Numbered and another group Suspect.
C18_Witness ==
    /\ prog = "dups" /\ pc = "prompt"
    /\ \E k \in 1..Len(Groups) :
         /\ BaseNames(Groups[k])
              = {"report.txt", "report_1.txt", "report (2).txt"}
         /\ dup.remarks[k] = "Numbered"
    /\ \E k \in 1..Len(Groups) : dup.remarks[k] = "Suspect"

\* The non-first members of the groups, group after group.
RECURSIVE NonFirstInOrder(_)
NonFirstInOrder(gs) ==
    IF gs = <<>> THEN <<>>
    ELSE Tail(Head(gs)) \o NonFirstInOrder(Tail(gs))

C19_Step ==
    /\ (prog = "dups" /\ pc = "prompt" /\ dup'.confirmation = "yes")
          => dup'.files_to_move = NonFirstInOrder(Groups)
    /\ (prog = "dups" /\ pc = "select" /\ dup'.g # dup.g)
          => dup'.files_to_move =
                dup.files_to_move \o
                [ i \in 1..Len(dup'.choices) |->
                    Groups[dup.g][EntryValue(dup'.choices[i],
                                             Len(Groups[dup.g]))] ]

\* C19: the files chosen to be moved and their order are determined by the
\* member lists of the groups, the mode and the selections alone: whether a
\* group is reported Numbered or Suspect has no influence on them.
C19_ClassificationIsAdvisory == [][C19_Step]_vars

\* Keep-First chose the second member of two groups of two, one reported
\* Numbered and the other Suspect.
C19_Witness ==
    /\ prog = "dups" /\ pc = "moving" /\ dup.confirmation = "yes"
    /\ Len(Groups) = 2 /\ Len(Groups[1]) = 2 /\ Len(Groups[2]) = 2
    /\ dup.remarks[1] # dup.remarks[2]
    /\ dup.files_to_move = << Groups[1][2], Groups[2][2] >>

\* C20: after a real run of organize_project in which no action failed a
\* file exists at every path of defined_file_targets, whatever the initial
\* tree and the layout.
C20_EveryTargetExists ==
    (prog \in {"main", "lib"} /\ pc = "done" /\ ~dry_run /\ NoFailure) =>
        \A p \in defined_file_targets(structure) : p \in DOMAIN files

\* A real run of organize_project has returned and none of its calls failed.
RealRunOver == RunOver /\ ~dry_run /\ NoFailure

\* C22: after a real run in which no action failed no directory under the
\* root is both empty and outside expected_directory_paths, chains of nested
\* directories included, and every directory removed by the run has a
\* CREATE_DIR entry in the journal.
C22_NoEmptyUnexpectedDirectory ==
    RealRunOver =>
        /\ \A x \in dirs \ {ROOT} :
             ~ (IsEmptyDir(files, dirs, x)
                /\ x \notin expected_directory_paths(structure))
        /\ \A x \in hist.fs0.dirs \ dirs :
             \E i \in 1..Len(RunJournal) :
                /\ RunJournal[i].action = "CREATE_DIR"
                /\ RunJournal[i].path = x

\* C23: every directory a real run created has a DELETE_DIR inverse entry in
\* the journal of the run, and no such entry names a directory that existed
\* before the run.
C23_CreatedDirectoriesJournaled ==
    RealRunOver =>
        /\ \A x \in dirs \ hist.fs0.dirs :
             \E i \in 1..Len(RunJournal) :
                /\ RunJournal[i].action = "DELETE_DIR"
                /\ RunJournal[i].path = x
        /\ \A i \in 1..Len(RunJournal) :
             RunJournal[i].action = "DELETE_DIR"
                => RunJournal[i].path \notin hist.fs0.dirs

\* The mutations a log reports as performed, in order.
PerformedLines(lg) ==
    LET IsMutation(l) ==
            l.act \in {"MOVE", "CREATE", "DELETE", "RMDIR"} /\ ~ l.dry
    IN  SelectSeq(lg, IsMutation)

\* The row that undoes a performed mutation.
UndoRow(l) ==
    CASE l.act = "MOVE" -> [action |-> "MOVE", path1 |-> l.p2, path2 |-> l.p1]
      [] l.act = "CREATE" -> [action |-> "DELETE", path1 |-> l.p1, path2 |-> ""]
      [] l.act = "DELETE" -> [action |-> "CREATE", path1 |-> l.p1, path2 |-> ""]
      [] l.act = "RMDIR" ->
           [action |-> "CREATE_DIR", path1 |-> l.p1, path2 |-> ""]

\* C24: the rollback file a run writes has one row per journal entry, in the
\* order in which the actions were performed, each with an action among
\* MOVE, DELETE, CREATE and CREATE_DIR; the row of move_file(src, dst) is
\* MOVE with path1 = dst and path2 = src.
C24_RollbackRows ==
    (RunOver /\ ~dry_run /\ hist.wrote) =>
        /\ Len(rollback_csv) = Len(rollback_data)
        /\ \A i \in 1..Len(rollback_csv) :
             rollback_csv[i].action \in {"MOVE", "DELETE", "CREATE", "CREATE_DIR"}
        /\ SubSeq(rollback_csv, hist.start + 1, Len(rollback_csv))
             = [ i \in 1..Len(PerformedLines(log)) |->
                   UndoRow(PerformedLines(log)[i]) ]

\* A rollback file was written after a move, a deletion and the removal of
\* a directory.
C24_Witness ==
    /\ RunOver /\ ~dry_run /\ hist.wrote
    /\ \E i, j, k \in 1..Len(rollback_csv) :
         /\ i < j /\ j < k
         /\ rollback_csv[i].action = "MOVE"
         /\ rollback_csv[i].path2 = <<"old", "processor.py">>
         /\ rollback_csv[j].action = "CREATE"
         /\ rollback_csv[k].action = "CREATE_DIR"

\* The files named name, wherever they lie.
Instances(f, name) == { p \in DOMAIN f : Basename(p) = name }

\* The place of a path in the order of the walk.
WalkPos(p) == CHOOSE i \in 1..Len(FileOrder) : FileOrder[i] = p

\* The instance of name the walk meets first.
FirstInstance(f, name) ==
    CHOOSE p \in Instances(f, name) :
        \A q \in Instances(f, name) : WalkPos(p) <= WalkPos(q)

\* A real run is about to handle the declared file at the head of declq.
Handling ==
    /\ prog \in {"main", "lib"} /\ pc = "step2" /\ ~dry_run
    /\ dupq = <<>> /\ declq # <<>>
    /\ Head(declq).canonical \notin processed

\* Every file but those of gone is where it was, with its content.
OthersUntouched(gone) ==
    \A q \in DOMAIN files \ gone : q \in DOMAIN files' /\ files'[q] = files[q]

\* A step of the loop that deletes the remaining locations removes the
\* next one and nothing else.
RestDeleted ==
    (prog \in {"main", "lib"} /\ pc = "step2" /\ ~dry_run /\ dupq # <<>>
     /\ nfail' = nfail) =>
        /\ DOMAIN files' = DOMAIN files \ {Head(dupq)}
        /\ OthersUntouched({Head(dupq)})
        /\ dupq' = Tail(dupq)

C25_Step ==
    /\ (Handling /\ Head(declq).canonical \in DOMAIN files) =>
          /\ files' = files
          /\ dirs' = dirs
          /\ rollback_data' = rollback_data
          /\ SeqToSet(dupq') = Instances(files, Head(declq).filename)
                                 \ {Head(declq).canonical}
          /\ Len(dupq') = Cardinality(SeqToSet(dupq'))
    /\ RestDeleted

\* C25: when a file exists at the canonical path of a declared filename the
\* reconciler leaves it in place, not moved, modified or journaled, and
\* deletes every other file of that name under the root.
C25_CanonicalKept == [][C25_Step]_vars

\* The canonical file was kept and the two other copies deleted.
C25_Witness ==
    /\ prog \in {"main", "lib"} /\ pc = "step3" /\ ~dry_run /\ NoFailure
    /\ structure = Layout1
    /\ Cardinality(Instances(hist.fs0.files, "processor.py")) = 3
    /\ <<"src", "core", "processor.py">> \in DOMAIN hist.fs0.files
    /\ Instances(files, "processor.py") = { <<"src", "core", "processor.py">> }
    /\ files[<<"src", "core", "processor.py">>]
         = hist.fs0.files[<<"src", "core", "processor.py">>]

\* The scenario of the single copy old/processor.py with the target
\* src/core/processor.py: the file ends at the target, and old/ is gone if
\* it had no sub-directory and the move and the deletions of the run left no
\* file in it.
C26_Scenario ==
    (RealRunOver /\ structure = Layout1
     /\ Instances(hist.fs0.files, "processor.py") = { <<"old", "processor.py">> })
        => /\ <<"src", "core", "processor.py">> \in DOMAIN files
           /\ files[<<"src", "core", "processor.py">>]
                = hist.fs0.files[<<"old", "processor.py">>]
           /\ <<"old", "processor.py">> \notin DOMAIN files
           /\ ((~ \E x \in hist.fs0.dirs : Len(x) = 2 /\ Dirname(x) = <<"old">>)
               /\ (~ \E q \in DOMAIN files : Len(q) = 2 /\ Dirname(q) = <<"old">>))
                 => <<"old">> \notin dirs

C26_Step ==
    /\ (Handling /\ Head(declq).canonical \notin DOMAIN files
        /\ Instances(files, Head(declq).filename) # {}
        /\ nfail' = nfail) =>
          LET canonical == Head(declq).canonical
              first == FirstInstance(files, Head(declq).filename)
          IN  /\ canonical \in DOMAIN files'
              /\ files'[canonical] = files[first]
              /\ first \notin DOMAIN files'
              /\ OthersUntouched({first})
              /\ DOMAIN files' = (DOMAIN files \ {first}) \cup {canonical}
              /\ Dirname(canonical) \in dirs'
              /\ rollback_data' =
                    Append(rollback_data,
                           [action |-> "MOVE", source |-> canonical,
                            destination |-> first])
              /\ SeqToSet(dupq') = Instances(files, Head(declq).filename)
                                     \ {first}
    /\ RestDeleted
    /\ C26_Scenario'

C27_Step ==
    /\ (Handling /\ Instances(files, Head(declq).filename) = {}
        /\ nfail' = nfail) =>
          LET canonical == Head(declq).canonical
          IN  /\ DOMAIN files' = DOMAIN files \cup {canonical}
              /\ files'[canonical] = Empty
              /\ OthersUntouched({})
              /\ Dirname(canonical) \in dirs'
              /\ rollback_data' =
                    Append(rollback_data,
                           [action |-> "DELETE", path |-> canonical])
              /\ dupq' = <<>>
    /\ (prog \in {"main", "lib"} /\ pc = "step3" /\ ~dry_run) =>
          \A p \in DOMAIN files \cap defined_file_targets(structure) :
              files[p] = Empty => (p \in DOMAIN files' /\ files'[p] = Empty)

\* C27: when no instance of a declared filename exists under the root the
\* reconciler creates a zero-length file at the canonical path, creating
\* missing parent directories, and journals a DELETE of that path; the
\* cleanup pass of the run does not remove the placeholder.
C27_PlaceholderCreated == [][C27_Step]_vars

\* A run that found no processor.py has ended with the placeholder in place.
C27_Witness ==
    /\ RealRunOver /\ structure = Layout1
    /\ Instances(hist.fs0.files, "processor.py") = {}
    /\ <<"src", "core">> \notin hist.fs0.dirs
    /\ files[<<"src", "core", "processor.py">>] = Empty
    /\ \E i \in 1..Len(RunJournal) :
         RunJournal[i] = [action |-> "DELETE",
                          path |-> <<"src", "core", "processor.py">>]

\* C28: during a run of organize_project a file lying at a path of
\* defined_file_targets is never deleted and never moved away from it.
C28_TargetFilesStay ==
    prog \in {"main", "lib"} =>
        ~ (/\ hist.last.ok
           /\ hist.last.op \in {"DELETE", "MOVE"}
           /\ hist.last.p1 \in defined_file_targets(structure))

\* The names the layout declares.
DeclaredNames ==
    { Declared(structure)[i].filename : i \in 1..Len(Declared(structure)) }

\* C29: for every declared filename with an instance under the root before
\* a real run, a file with the content of one of those instances exists
\* under the root after the run, whichever actions failed.
C29_DeclaredContentSurvives ==
    (RunOver /\ ~dry_run) =>
        \A name \in DeclaredNames :
            Instances(hist.fs0.files, name) # {} =>
                \E q \in DOMAIN files :
                    \E p \in Instances(hist.fs0.files, name) :
                        files[q] = hist.fs0.files[p]

C30_Step ==
    pc = "step4" =>
        /\ files' = files
        /\ dirs' \subseteq dirs
        /\ \A x \in dirs \ dirs' :
             /\ x # ROOT
             /\ x \notin expected_directory_paths(structure)
             /\ IsEmptyDir(files, dirs, x)

\* C30: the pruning pass removes only directories that are empty when they
\* are removed and are not expected: never the root, never an expected
\* directory, never a directory holding a file or a sub-directory.
C30_PruneOnlyEmptyUnexpected == [][C30_Step]_vars

\* The pass has removed a directory while an expected directory that is
\* empty and a directory holding a file are still there.
C30_Witness ==
    /\ pc = "step4" /\ ~dry_run
    /\ hist.last = Did("RMDIR", <<"old", "sub">>, <<>>, TRUE)
    /\ <<"old", "sub">> \notin dirs
    /\ <<"src", "core">> \in dirs /\ IsEmptyDir(files, dirs, <<"src", "core">>)
    /\ \E p \in DOMAIN files : Dirname(p) = <<"old">>

\* The files of the engine itself: the script, its log file and the rollback
\* file, all directly in ROOT.
OwnArtifacts == { <<SCRIPT_NAME>>, <<LOG_FILE>>, <<ROLLBACK_NAME>> }

\* C21: after a real run in which no action failed every file under the
\* root lies at a path of defined_file_targets or is one of the engine's own
\* artifacts; every other file has been removed.
C21_OnlyTargetsAndArtifactsRemain ==
    RealRunOver =>
        \A p \in DOMAIN files :
            p \in defined_file_targets(structure) \/ p \in OwnArtifacts

\* C31: when handle_duplicates is over, whatever the answer ('yes', 'no' or
\* 'select' with any accepted selection), at least one member of every
\* group is still at its original path.
C31_OneOfEachGroupStays ==
    (prog = "dups" /\ pc = "done") =>
        \A k \in 1..Len(Groups) :
            \E i \in 1..Len(Groups[k]) : Groups[k][i] \in DOMAIN files

\* The name tried for base_name when the counter stands at k.
CounterName(base_name, k) ==
    Splitext(base_name).name \o "_" \o ToString(k) \o Splitext(base_name).ext

\* The quarantine name a file of that base name gets in tree f: the base
\* name if it is free, else the first free <name>_<k><ext>, k = 1, 2, ...
FreeName(f, base_name, np) ==
    LET Taken(n) == Join(duplicates_folder, n) \in DOMAIN f
    IN  IF ~ Taken(base_name) THEN Basename(np) = base_name
        ELSE \E k \in 1..(Cardinality(DOMAIN f) + 1) :
                /\ Basename(np) = CounterName(base_name, k)
                /\ \A j \in 1..(k - 1) : Taken(CounterName(base_name, j))

C32_Step ==
    /\ (prog = "dups" /\ pc = "moving" /\ files' # files) =>
          LET src == Head(dup.files_to_move)
          IN  /\ \A q \in Quarantined : q \in DOMAIN files' /\ files'[q] = files[q]
              /\ \E np \in DOMAIN files' \ DOMAIN files :
                    /\ Dirname(np) = duplicates_folder
                    /\ FreeName(files, Basename(src), np)
                    /\ files'[np] = files[src]
                    /\ DOMAIN files' = (DOMAIN files \ {src}) \cup {np}
              /\ Cardinality(Quarantined') = Cardinality(Quarantined) + 1
    /\ prog = "dups" => Cardinality(Quarantined) = Cardinality(Gone)

\* C32: a quarantine move never overwrites a file already in the quarantine
\* directory: the file goes under its base name if that is free and else
\* under the first free <name>_<k><ext>, k counted up from 1, and every file
\* that left its path is in the quarantine directory under a name of its
\* own.
C32_QuarantineNeverOverwrites == [][C32_Step]_vars

\* Three files went to the quarantine directory, the last one under a name
\* found at the second try of the counter or after a counter name was taken
\* by a file of that very name.
C32_Witness ==
    /\ prog = "dups" /\ pc = "done"
    /\ Cardinality(Quarantined) = 3
    /\ Cardinality(Gone) = 3
    /\ \E q \in Quarantined : Basename(q) \in {"report_2.txt", "report_1_1.txt"}

\* The scanned files that could be read.
ReadableScanned == SeqToSet(dup.scanned) \ dup.unreadable

\* The files of the set S with the content, hence the digest, of p.
SameDigest(S, p) == { q \in S : files[q] = files[p] }

\* The groups obtained by hashing every file of S and keeping the digests
\* shared by two or more files.
GroupsByDigest(S) ==
    { SameDigest(S, p) : p \in { x \in S : Cardinality(SameDigest(S, x)) >= 2 } }

\* The groups find_duplicates returned, as sets of paths.
GroupSets == { SeqToSet(Groups[k]) : k \in 1..Len(Groups) }

FindOver == prog = "dups" /\ pc = "start"

\* C33: when every scanned file is readable the groups find_duplicates
\* returns are exactly the groups obtained by hashing every scanned file and
\* keeping the digests shared by two or more files.
C33_PrefilterLosesNothing ==
    (FindOver /\ SeqToSet(dup.scanned) \cap dup.unreadable = {}) =>
        /\ GroupSets = GroupsByDigest(SeqToSet(dup.scanned))
        /\ Len(Groups) = Cardinality(GroupSets)
        /\ \A k \in 1..Len(Groups) :
             Len(Groups[k]) = Cardinality(SeqToSet(Groups[k]))

\* Two groups were found in two size buckets, next to a file that shares
\* its size with a group and its content with no file.
C33_Witness ==
    /\ FindOver /\ SeqToSet(dup.scanned) \cap dup.unreadable = {}
    /\ Len(Groups) = 2
    /\ Len(files[Groups[1][1]]) # Len(files[Groups[2][1]])
    /\ \E p \in SeqToSet(dup.scanned) :
         /\ SameDigest(SeqToSet(dup.scanned), p) = {p}
         /\ \E q \in SeqToSet(dup.scanned) :
              q # p /\ Len(files[q]) = Len(files[p])

\* The scanned files whose size no other scanned file has.
UniqueSize ==
    { p \in SeqToSet(dup.scanned) :
        \A q \in SeqToSet(dup.scanned) \ {p} : Len(files[q]) # Len(files[p]) }

\* C34: find_duplicates hands a file to get_file_hash only if another
\* scanned file has its size: a file of unique size is never hashed and is
\* in no group.
C34_UniqueSizeNeverHashed ==
    FindOver =>
        /\ SeqToSet(dup.hashed) = SeqToSet(dup.scanned) \ UniqueSize
        /\ \A p \in UniqueSize : \A g \in GroupSets : p \notin g

\* A file of unique size was scanned and left alone while others were
\* hashed.
C34_Witness ==
    /\ FindOver
    /\ UniqueSize # {}
    /\ dup.hashed # <<>>
    /\ Len(Groups) = 1

\* C35: get_file_hash returns None for a file that cannot be read;
\* find_duplicates leaves that file out of every group and groups the other
\* files as if it were not there, so a group left with one member is not
\* returned.
C35_UnreadableFilesDropped ==
    FindOver =>
        /\ \A p \in dup.unreadable :
             /\ get_file_hash(files, dup.unreadable, p) = None
             /\ \A g \in GroupSets : p \notin g
        /\ GroupSets = GroupsByDigest(ReadableScanned)
        /\ Len(Groups) = Cardinality(GroupSets)

\* An unreadable file was hashed whose only duplicate is therefore in no
\* group, while another group was returned.
C35_Witness ==
    /\ FindOver
    /\ Len(Groups) = 1
    /\ \E p \in dup.unreadable \cap SeqToSet(dup.hashed) :
         \E q \in ReadableScanned :
            /\ SameDigest(SeqToSet(dup.scanned), p) = {p, q}
            /\ q \notin UNION GroupSets

\* The place of a scanned file in the order of the walk.
ScanPos(p) == CHOOSE i \in 1..Len(dup.scanned) : dup.scanned[i] = p

\* C36: the members of every group find_duplicates returns are listed in
\* the order in which the walk met them, so the first member is the one met
\* first.
C36_GroupsInDiscoveryOrder ==
    FindOver =>
        \A k \in 1..Len(Groups) :
            /\ \A i \in 1..Len(Groups[k]) : Groups[k][i] \in SeqToSet(dup.scanned)
            /\ \A i, j \in 1..Len(Groups[k]) :
                 i < j => ScanPos(Groups[k][i]) < ScanPos(Groups[k][j])
            /\ \A i \in 2..Len(Groups[k]) :
                 ScanPos(Groups[k][1]) < ScanPos(Groups[k][i])

\* A group of three spread over three directories, its members separated in
\* the walk by the members of another group.
C36_Witness ==
    /\ FindOver
    /\ Len(Groups) = 2
    /\ \E k \in 1..2 :
         /\ Len(Groups[k]) = 3
         /\ Len(Groups[k][1]) = 1 /\ Len(Groups[k][2]) = 2
         /\ Len(Groups[k][3]) = 3
         /\ \E p \in SeqToSet(Groups[3 - k]) :
              ScanPos(Groups[k][1]) < ScanPos(p)
              /\ ScanPos(p) < ScanPos(Groups[k][2])

\* A name without one trailing suffix _<digits> or ' (<digits>)', the
\* latter with a space before the bracket; a name without such a suffix is
\* left as it is.
WithoutCounter(name) ==
    LET n == Len(name)
        AllDigits(i, j) == i <= j /\ \A k \in i..j : IsDigit(name[k])
        cut == { i \in 1..n :
                   \/ name[i] = "_" /\ AllDigits(i + 1, n)
                   \/ /\ name[i] = " " /\ i + 3 <= n
                      /\ name[i + 1] = "(" /\ name[n] = ")"
                      /\ AllDigits(i + 2, n - 1) }
    IN  IF cut = {} THEN name
        ELSE SubSeq(name, 1, (CHOOSE i \in cut : \A j \in cut : i <= j) - 1)

\* C37: is_numbered_duplicate(p1, p2) is true exactly when the base names
\* have the same extension, their names without extension are equal after
\* removing one trailing suffix _<digits> or ' (<digits>)' from each that
\* has one, and the names without extension differ; the result is the same
\* for (p2, p1), and false for equal names in different directories.
C37_NumberedExactly ==
    (prog = "names" /\ pc = "done") =>
        LET s1 == os_path_splitext(Basename(dup.file_path1))
            s2 == os_path_splitext(Basename(dup.file_path2))
        IN  /\ dup.result <=>
                 /\ s1.ext = s2.ext
                 /\ WithoutCounter(s1.name) = WithoutCounter(s2.name)
                 /\ s1.name # s2.name
            /\ dup.result
                 = is_numbered_duplicate(dup.file_path2, dup.file_path1)
            /\ Basename(dup.file_path1) = Basename(dup.file_path2)
                 => ~ dup.result
====
